---------------------------- MODULE Spec2Model ----------------------------
(***************************************************************************)
(* A model of the ingestion engine of doxy-to-md (src/src/d2m/parser.rs,   *)
(* src/src/d2m/doxygen.rs, src/src/main.rs).                               *)
(*                                                                         *)
(* Texts (Rust String) are sequences of one-character strings; attribute   *)
(* values and element names are TLA+ strings.  An XML element is a record  *)
(* [name, attrs, text, nodes]; a text node is such a record with the name  *)
(* "#text".  A Rust function that can panic returns [ok, v]: ok = FALSE is *)
(* the panic, and v then holds what had been written before it.            *)
(***************************************************************************)
EXTENDS Integers, Sequences, FiniteSets, TLC

(***************************************************************************)
(* Texts                                                                   *)
(***************************************************************************)

\* str::starts_with at an offset: pat occurs in s at position i
MatchAt(s, pat, i) ==
  /\ i >= 1
  /\ i + Len(pat) - 1 <= Len(s)
  /\ SubSeq(s, i, i + Len(pat) - 1) = pat

\* str::find: the least position >= from where pat occurs, 0 when none
Find(s, pat, from) ==
  LET hits == {i \in from..Len(s) : MatchAt(s, pat, i)}
  IN IF hits = {} THEN 0 ELSE CHOOSE i \in hits : \A j \in hits : i <= j

\* str::contains
Contains(s, pat) == Find(s, pat, 1) # 0

RECURSIVE Split(_, _)
\* str::split with a non-empty pattern: every piece, the empty ones included
Split(s, pat) ==
  LET i == Find(s, pat, 1)
  IN IF i = 0
       THEN <<s>>
       ELSE <<SubSeq(s, 1, i - 1)>> \o Split(SubSeq(s, i + Len(pat), Len(s)), pat)

RECURSIVE Replace(_, _, _)
\* str::replace: every non-overlapping occurrence of pat, left to right
Replace(s, pat, rep) ==
  LET i == Find(s, pat, 1)
  IN IF i = 0
       THEN s
       ELSE SubSeq(s, 1, i - 1) \o rep \o Replace(SubSeq(s, i + Len(pat), Len(s)), pat, rep)

\* char::is_whitespace, for the characters the model's texts use
IsWhitespace(c) == c \in {" ", "\n", "\t"}

\* str::trim
Trim(s) ==
  LET keep == {i \in 1..Len(s) : ~IsWhitespace(s[i])}
  IN IF keep = {}
       THEN <<>>
       ELSE LET lo == CHOOSE i \in keep : \A j \in keep : i <= j
                hi == CHOOSE i \in keep : \A j \in keep : i >= j
            IN SubSeq(s, lo, hi)

RECURSIVE Spaces(_)
\* iter::repeat(" ").take(n).collect::<String>()
Spaces(n) == IF n <= 0 THEN <<>> ELSE <<" ">> \o Spaces(n - 1)

RECURSIVE Concat(_)
\* the concatenation of a sequence of texts
Concat(ss) == IF ss = <<>> THEN <<>> ELSE Head(ss) \o Concat(Tail(ss))

\* Vec::contains
SeqContains(seq, x) == \E i \in 1..Len(seq) : seq[i] = x

RECURSIVE SelectSeqBy(_, _)
\* Iterator::filter on a sequence, with the set of the elements to keep
SelectSeqBy(seq, keep) ==
  IF seq = <<>> THEN <<>>
  ELSE (IF Head(seq) \in keep THEN <<Head(seq)>> ELSE <<>>) \o SelectSeqBy(Tail(seq), keep)

(***************************************************************************)
(* The XML tree (minidom::Element)                                         *)
(***************************************************************************)

NoAttrs == [k \in {} |-> ""]

\* a text node
Tx(s) == [name |-> "#text", attrs |-> NoAttrs, text |-> s, nodes |-> <<>>]

\* an element node
El(name, attrs, nodes) == [name |-> name, attrs |-> attrs, text |-> <<>>, nodes |-> nodes]

IsText(n) == n.name = "#text"

\* Element::attr: Some(value) or None
HasAttr(e, k) == k \in DOMAIN e.attrs
Attr(e, k) == e.attrs[k]

\* Element::children: the child elements, in document order
Children(e) == SelectSeqBy(e.nodes, {n \in {e.nodes[i] : i \in 1..Len(e.nodes)} : ~IsText(n)})

\* Element::children().filter(|e| e.is(name, AnyNS))
ChildrenNamed(e, name) ==
  SelectSeqBy(e.nodes, {n \in {e.nodes[i] : i \in 1..Len(e.nodes)} : n.name = name})

\* Element::get_child(name, AnyNS): is there one, and the first one
HasChild(e, name) == ChildrenNamed(e, name) # <<>>
GetChild(e, name) == Head(ChildrenNamed(e, name))

\* Element::text: the concatenation of the element's own text nodes
Text(e) ==
  LET texts == SelectSeqBy(e.nodes, {n \in {e.nodes[i] : i \in 1..Len(e.nodes)} : IsText(n)})
  IN Concat([i \in 1..Len(texts) |-> texts[i].text])

(***************************************************************************)
(* Results of functions that can panic                                     *)
(***************************************************************************)

Ok(v) == [ok |-> TRUE, v |-> v]
Panic(v) == [ok |-> FALSE, v |-> v]

\* the rest of a function after a call that can panic: F on the call's value,
\* or the panic with the caller's state as it was
Then(r, fallback, F(_)) == IF r.ok THEN F(r.v) ELSE Panic(fallback)

\* the same, the panic handed on as it is
Bind(r, F(_)) == IF r.ok THEN F(r.v) ELSE r

(***************************************************************************)
(* Entity model (doxygen.rs)                                               *)
(***************************************************************************)

\* HashMap::new()
EmptyMap == [k \in {} |-> <<>>]

\* HashMap::insert: the key is added or its value replaced
MapInsert(m, k, v) == [x \in DOMAIN m \cup {k} |-> IF x = k THEN v ELSE m[x]]

\* Comment::new
NewComment ==
  [brief |-> <<>>, details |-> <<>>, parameters |-> EmptyMap,
   template_parameters |-> EmptyMap, returns |-> <<>>, pre_conditions |-> <<>>,
   post_conditions |-> <<>>, exceptions |-> EmptyMap, see_also |-> <<>>,
   notes |-> <<>>, warnings |-> <<>>]

\* Variable::new
NewVariable ==
  [name |-> <<>>, qualified_name |-> <<>>, definition |-> <<>>, access |-> "PRIVATE",
   docs |-> NewComment, is_static |-> FALSE, is_constexpr |-> FALSE, is_mutable |-> FALSE]

\* Function::new(is_member)
NewFunction(is_member) ==
  [name |-> <<>>, qualified_name |-> <<>>, return_type |-> <<>>, args |-> <<>>,
   parameter_names |-> <<>>, template_args |-> <<>>, definition |-> <<>>,
   access |-> "PRIVATE", docs |-> NewComment, is_static |-> FALSE, is_const |-> FALSE,
   is_inline |-> FALSE, is_noexcept |-> FALSE, is_virtual |-> FALSE,
   is_explicit |-> FALSE, is_member |-> is_member]

\* Class::new, Class::new_struct, Class::new_interface
NewClass ==
  [unqualified_name |-> <<"?">>, template_args |-> <<>>,
   is_struct |-> FALSE, is_interface |-> FALSE]
NewStruct ==
  [unqualified_name |-> <<>>, template_args |-> <<>>,
   is_struct |-> TRUE, is_interface |-> FALSE]
NewInterface ==
  [unqualified_name |-> <<>>, template_args |-> <<>>,
   is_struct |-> FALSE, is_interface |-> TRUE]

\* Define::new
NewDefine == [name |-> <<"?">>]

\* EnumValue::new
NewEnumValue == [name |-> <<>>, initializer |-> <<>>, docs |-> NewComment]

\* Enum::new
NewEnum ==
  [name |-> <<>>, qualified_name |-> <<>>, values |-> <<>>, docs |-> NewComment,
   is_scoped |-> FALSE]

\* Compound::new
NewCompound ==
  [name |-> <<>>, title |-> <<>>, kind |-> "UNKNOWN", groups |-> <<>>,
   namespaces |-> <<>>, classes |-> <<>>, enums |-> <<>>, enum_values |-> <<>>,
   functions |-> <<>>, variables |-> <<>>, defines |-> <<>>, docs |-> NewComment]

\* Registry::new
NewRegistry ==
  [compounds |-> EmptyMap, classes |-> EmptyMap, enums |-> EmptyMap,
   enum_values |-> EmptyMap, functions |-> EmptyMap, variables |-> EmptyMap,
   defines |-> EmptyMap]

\* AccessModifier::from_str
AccessModifierFromStr(s) ==
  CASE s = "private" -> Ok("PRIVATE")
    [] s = "protected" -> Ok("PROTECTED")
    [] s = "public" -> Ok("PUBLIC")
    [] OTHER -> Panic("PRIVATE")

\* CompoundKind::from_str
CompoundKindFromStr(s) ==
  CASE s = "file" -> Ok("FILE")
    [] s = "dir" -> Ok("DIRECTORY")
    [] s = "namespace" -> Ok("NAMESPACE")
    [] s = "class" -> Ok("CLASS")
    [] s = "struct" -> Ok("STRUCT")
    [] s = "interface" -> Ok("INTERFACE")
    [] s = "concept" -> Ok("CONCEPT")
    [] s = "page" -> Ok("PAGE")
    [] s = "group" -> Ok("GROUP")
    [] OTHER -> Panic("UNKNOWN")

\* Registry::add_compound: HashMap::insert replaces an entry already present
AddCompound(registry, id, kind, name) ==
  [registry EXCEPT !.compounds =
     MapInsert(@, id, [NewCompound EXCEPT !.name = name, !.kind = kind])]

(***************************************************************************)
(* Comment extractor (parser.rs: parse_text, parse_parameter_list,         *)
(* parse_comment, parse_template_args)                                     *)
(***************************************************************************)

\* the character U+0060 of format!(" `{}` ", ..), which a TLA+ string cannot hold
Backtick == "U+0060"

\* what one node adds to the content, were a list item not to end its line
TextOfNode_OpenLine(node, inner) ==
  CASE IsText(node) ->
         Ok(IF node.text # <<>> THEN Trim(node.text) ELSE <<>>)
    [] node.name = "para" -> inner
    [] node.name = "computeroutput" ->
         IF inner.ok THEN Ok(<<" ", Backtick>> \o inner.v \o <<Backtick, " ">>) ELSE inner
    [] node.name = "itemizedlist" ->
         IF inner.ok THEN Ok(<<"\n">> \o inner.v) ELSE inner
    [] node.name = "listitem" ->
         IF inner.ok THEN Ok(<<"*", " ">> \o inner.v) ELSE inner
    [] node.name = "ref" ->
         IF HasAttr(node, "refid") /\ HasAttr(node, "kindref")
           THEN inner ELSE Panic(<<>>)
    [] OTHER -> Ok(<<>>)

\* parse_text: what one node adds to the content, inner being parse_text of
\* the node when it is an element
TextOfNode(node, inner) ==
  CASE IsText(node) ->
         Ok(IF node.text # <<>> THEN Trim(node.text) ELSE <<>>)
    [] node.name = "para" -> inner
    [] node.name = "computeroutput" ->
         IF inner.ok THEN Ok(<<" ", Backtick>> \o inner.v \o <<Backtick, " ">>) ELSE inner
    [] node.name = "itemizedlist" ->
         IF inner.ok THEN Ok(<<"\n">> \o inner.v) ELSE inner
    [] node.name = "listitem" ->
         IF inner.ok THEN Ok(<<"*", " ">> \o inner.v \o <<"\n">>) ELSE inner
    [] node.name = "ref" ->
         IF HasAttr(node, "refid") /\ HasAttr(node, "kindref")
           THEN inner ELSE Panic(<<>>)
    [] OTHER -> Ok(<<>>)

RECURSIVE ParseTextNodes(_)
\* parse_text: the loop over root.nodes(), from the first node on
ParseTextNodes(nodes) ==
  IF nodes = <<>> THEN Ok(<<>>)
  ELSE Then(TextOfNode(Head(nodes), ParseTextNodes(Head(nodes).nodes)), <<>>,
            LAMBDA this :
              Then(ParseTextNodes(Tail(nodes)), <<>>, LAMBDA rest : Ok(this \o rest)))

\* parse_text
ParseText(root) == ParseTextNodes(root.nodes)

RECURSIVE ParseParameterItems(_, _)
\* parse_parameter_list: the loop over the parameteritem children
ParseParameterItems(items, entries) ==
  IF items = <<>> THEN Ok(entries)
  ELSE
    LET item == Head(items)
        list == GetChild(item, "parameternamelist")
    IN IF ~HasChild(item, "parameternamelist") THEN Panic(entries)
       ELSE IF ~HasChild(list, "parametername") THEN Panic(entries)
       ELSE Then(ParseText(GetChild(list, "parametername")), entries, LAMBDA name :
              IF ~HasChild(item, "parameterdescription") THEN Panic(entries)
              ELSE Then(ParseText(GetChild(item, "parameterdescription")), entries,
                        LAMBDA desc :
                          ParseParameterItems(Tail(items), MapInsert(entries, name, desc))))

\* parse_parameter_list
ParseParameterList(elem) == ParseParameterItems(ChildrenNamed(elem, "parameteritem"), EmptyMap)

\* parse_comment: the parameterlist of one paragraph of the detailed description
CommentParameterList(child, comment) ==
  IF ~HasChild(child, "parameterlist") THEN Ok(comment)
  ELSE
    LET parameter_list == GetChild(child, "parameterlist")
        kind == Attr(parameter_list, "kind")
    IN IF ~HasAttr(parameter_list, "kind") THEN Panic(comment)
       ELSE IF kind \notin {"param", "exception", "templateparam"} THEN Ok(comment)
       ELSE IF \/ kind = "param" /\ DOMAIN comment.parameters # {}
               \/ kind = "exception" /\ DOMAIN comment.exceptions # {}
               \/ kind = "templateparam" /\ DOMAIN comment.template_parameters # {}
         THEN Panic(comment)
       ELSE Then(ParseParameterList(parameter_list), comment, LAMBDA parsed :
              CASE kind = "param" -> Ok([comment EXCEPT !.parameters = parsed])
                [] kind = "exception" -> Ok([comment EXCEPT !.exceptions = parsed])
                [] kind = "templateparam" ->
                     Ok([comment EXCEPT !.template_parameters = parsed]))

\* the simplesect of one paragraph, were a return section to add its text to
\* the return description
CommentSimpleSection_Concat(child, comment) ==
  IF ~HasChild(child, "simplesect") THEN Ok(comment)
  ELSE
    LET simple_section == GetChild(child, "simplesect")
        kind == Attr(simple_section, "kind")
    IN IF ~HasAttr(simple_section, "kind") THEN Panic(comment)
       ELSE IF kind \notin {"return", "note", "remark", "see", "warning", "pre", "post"}
         THEN Ok(comment)
       ELSE IF ~HasChild(simple_section, "para") THEN Ok(comment)
       ELSE Then(ParseText(GetChild(simple_section, "para")), comment, LAMBDA text :
              CASE kind = "return" -> Ok([comment EXCEPT !.returns = @ \o text])
                [] kind \in {"note", "remark"} ->
                     Ok([comment EXCEPT !.notes = Append(@, text)])
                [] kind = "see" -> Ok([comment EXCEPT !.see_also = Append(@, text)])
                [] kind = "warning" -> Ok([comment EXCEPT !.warnings = Append(@, text)])
                [] kind = "pre" -> Ok([comment EXCEPT !.pre_conditions = Append(@, text)])
                [] kind = "post" -> Ok([comment EXCEPT !.post_conditions = Append(@, text)]))

\* parse_comment: the simplesect of one paragraph of the detailed description
CommentSimpleSection(child, comment) ==
  IF ~HasChild(child, "simplesect") THEN Ok(comment)
  ELSE
    LET simple_section == GetChild(child, "simplesect")
        kind == Attr(simple_section, "kind")
    IN IF ~HasAttr(simple_section, "kind") THEN Panic(comment)
       ELSE IF kind \notin {"return", "note", "remark", "see", "warning", "pre", "post"}
         THEN Ok(comment)
       ELSE IF ~HasChild(simple_section, "para") THEN Ok(comment)
       ELSE Then(ParseText(GetChild(simple_section, "para")), comment, LAMBDA text :
              CASE kind = "return" -> Ok([comment EXCEPT !.returns = text])
                [] kind \in {"note", "remark"} ->
                     Ok([comment EXCEPT !.notes = Append(@, text)])
                [] kind = "see" -> Ok([comment EXCEPT !.see_also = Append(@, text)])
                [] kind = "warning" -> Ok([comment EXCEPT !.warnings = Append(@, text)])
                [] kind = "pre" -> Ok([comment EXCEPT !.pre_conditions = Append(@, text)])
                [] kind = "post" -> Ok([comment EXCEPT !.post_conditions = Append(@, text)]))

RECURSIVE CommentDetails(_, _)
\* parse_comment: the loop over the children of the detailed description
CommentDetails(children, comment) ==
  IF children = <<>> THEN Ok(comment)
  ELSE IF Head(children).name # "para" THEN CommentDetails(Tail(children), comment)
  ELSE Then(ParseText(Head(children)), comment, LAMBDA text :
       Then(CommentParameterList(Head(children),
                                 [comment EXCEPT !.details = Append(@, text)]),
            comment, LAMBDA c2 :
       Then(CommentSimpleSection(Head(children), c2), comment, LAMBDA c3 :
         CommentDetails(Tail(children), c3))))

\* parse_comment: the brief description
CommentBrief(elem, comment) ==
  IF /\ HasChild(elem, "briefdescription")
     /\ HasChild(GetChild(elem, "briefdescription"), "para")
    THEN Then(ParseText(GetChild(GetChild(elem, "briefdescription"), "para")), comment,
              LAMBDA brief : Ok([comment EXCEPT !.brief = Append(@, brief)]))
    ELSE Ok(comment)

\* parse_comment
ParseComment(elem) ==
  Then(CommentBrief(elem, NewComment), NewComment, LAMBDA c1 :
    IF ~HasChild(elem, "detaileddescription") THEN Ok(c1)
    ELSE CommentDetails(Children(GetChild(elem, "detaileddescription")), c1))

RECURSIVE TemplateArgs(_, _)
\* parse_template_args: the loop over the param children
TemplateArgs(params, args) ==
  IF params = <<>> THEN Ok(args)
  ELSE IF ~HasChild(Head(params), "type") THEN Panic(args)
  ELSE TemplateArgs(Tail(params), Append(args, Text(GetChild(Head(params), "type"))))

\* parse_template_args
ParseTemplateArgs(elem) == TemplateArgs(ChildrenNamed(elem, "param"), <<>>)

(***************************************************************************)
(* Signature normaliser (parser.rs)                                        *)
(***************************************************************************)

RECURSIVE RejoinArgs(_, _, _)
\* remove_redundant_const_from_function_parameters: the loop over the
\* non-empty pieces of head.split(","), with the flag `first`
RejoinArgs(pieces, first, align_offset) ==
  IF pieces = <<>> THEN <<>>
  ELSE
    LET arg == Head(pieces)
        is_pointer == Contains(arg, <<"*">>) \/ Contains(arg, <<"&">>)
        sep == IF first THEN <<>>
               ELSE <<",">> \o
                    (IF ~Contains(arg, <<"<">>) /\ ~Contains(arg, <<">">>)
                       THEN <<"\n">> \o Spaces(align_offset) ELSE <<>>)
        body == IF ~is_pointer /\ Contains(arg, <<"c", "o", "n", "s", "t">>)
                  THEN Replace(arg, <<"c", "o", "n", "s", "t", " ">>, <<>>)
                  ELSE arg
    IN sep \o body \o RejoinArgs(Tail(pieces), FALSE, align_offset)

\* the new args of head, were the continuation lines not aligned
NewArgs_Unaligned(all, align_offset) ==
  RejoinArgs(SelectSeqBy(all, {all[i] : i \in 1..Len(all)} \ {<<>>}), TRUE, 0)

\* remove_redundant_const_from_function_parameters: the new args of head, the
\* pieces of head.split(",")
NewArgs(all, align_offset) ==
  RejoinArgs(SelectSeqBy(all, {all[i] : i \in 1..Len(all)} \ {<<>>}), TRUE, align_offset)

\* remove_redundant_const_from_function_parameters: head and tail written back,
\* separated being func.args.split("->")
WithTrailingReturn(func, separated, align_offset) ==
  IF Len(separated) < 2 THEN Panic(func)
  ELSE Ok([func EXCEPT !.args = NewArgs(Split(separated[1], <<",">>), align_offset)
                                  \o <<"-", ">">> \o separated[2]])

\* remove_redundant_const_from_function_parameters
RemoveRedundantConst(func) ==
  IF func.parameter_names = <<>> THEN Ok(func)
  ELSE
    LET align_offset == Len(func.return_type) + Len(func.name)
                          + (IF func.is_static THEN 7 ELSE 0)
                          + (IF func.is_explicit THEN 9 ELSE 0)
                          + (IF func.return_type = <<>> THEN 0 ELSE 1)
    IN IF func.return_type = <<"a", "u", "t", "o">>
         THEN WithTrailingReturn(func, Split(func.args, <<"-", ">">>), align_offset)
         ELSE Ok([func EXCEPT !.args = NewArgs(Split(@, <<",">>), align_offset)])

RECURSIVE RegexReplaceNoexcept(_)
\* Regex (?P<a>noexcept)(.*) with replace_all(.., "$a(...)"): each match runs
\* from "noexcept" to the end of its line, '.' matching no line feed
RegexReplaceNoexcept(s) ==
  LET word == <<"n", "o", "e", "x", "c", "e", "p", "t">>
      i == Find(s, word, 1)
      nl == Find(s, <<"\n">>, i + Len(word))
      eol == IF nl = 0 THEN Len(s) + 1 ELSE nl
  IN IF i = 0 THEN s
     ELSE SubSeq(s, 1, i - 1) \o word \o <<"(", ".", ".", ".", ")">>
            \o RegexReplaceNoexcept(SubSeq(s, eol, Len(s)))

\* simplify_function_noexcept_specifier
SimplifyNoexcept(func) ==
  IF Contains(func.args, <<"n", "o", "e", "x", "c", "e", "p", "t", "(">>)
    THEN [func EXCEPT !.args = RegexReplaceNoexcept(@)]
    ELSE func

(***************************************************************************)
(* Definition parsers of the members (parser.rs)                           *)
(***************************************************************************)

RECURSIVE ParameterNames(_, _)
\* parse_function_definition: the loop over the param children
ParameterNames(params, names) ==
  IF params = <<>> THEN names
  ELSE LET child == Head(params)
           name == Text(GetChild(child, "declname"))
       IN ParameterNames(Tail(params),
            IF HasChild(child, "declname") /\ ~SeqContains(names, name)
              THEN Append(names, name) ELSE names)

\* parse_function_definition: the fields read off the element, given the
\* parsed access, template arguments and comment
FunctionFields(elem, func, access, template_args, docs) ==
  [func EXCEPT
     !.access = access,
     !.is_static = Attr(elem, "static") = "yes",
     !.is_const = Attr(elem, "const") = "yes",
     !.is_explicit = Attr(elem, "explicit") = "yes",
     !.is_inline = Attr(elem, "inline") = "yes",
     !.is_virtual = Attr(elem, "virt") # "non-virtual",
     !.is_noexcept = (IF HasAttr(elem, "const") THEN Attr(elem, "const") ELSE "no") = "yes",
     !.name = Text(GetChild(elem, "name")),
     !.definition = Text(GetChild(elem, "definition")),
     !.return_type = Text(GetChild(elem, "type")),
     !.args = Text(GetChild(elem, "argsstring")),
     !.qualified_name = IF HasChild(elem, "qualifiedname")
                          THEN Text(GetChild(elem, "qualifiedname")) ELSE @,
     !.template_args = template_args,
     !.parameter_names = ParameterNames(ChildrenNamed(elem, "param"), @),
     !.docs = docs]

\* parse_function_definition: the template arguments after the optional
\* templateparamlist
FunctionTemplateArgs(elem, func) ==
  IF HasChild(elem, "templateparamlist")
    THEN ParseTemplateArgs(GetChild(elem, "templateparamlist"))
    ELSE Ok(func.template_args)

\* parse_function_definition; a panic leaves the entity's partial writes out,
\* which nothing reads: the process is unwinding
ParseFunctionDefinition(elem, func) ==
  IF \E a \in {"prot", "static", "const", "explicit", "inline", "virt"} : ~HasAttr(elem, a)
    THEN Panic(func)
  ELSE Then(AccessModifierFromStr(Attr(elem, "prot")), func, LAMBDA access :
    IF \E c \in {"name", "definition", "type", "argsstring"} : ~HasChild(elem, c)
      THEN Panic(func)
    ELSE Then(FunctionTemplateArgs(elem, func), func, LAMBDA template_args :
         Then(ParseComment(elem), func, LAMBDA docs :
         Then(RemoveRedundantConst(FunctionFields(elem, func, access, template_args, docs)),
              func, LAMBDA f2 : Ok(SimplifyNoexcept(f2))))))

\* parse_variable_definition
ParseVariableDefinition(elem, var) ==
  IF \E a \in {"prot", "static", "mutable"} : ~HasAttr(elem, a) THEN Panic(var)
  ELSE Then(AccessModifierFromStr(Attr(elem, "prot")), var, LAMBDA access :
    IF \E c \in {"name", "qualifiedname", "definition"} : ~HasChild(elem, c)
      THEN Panic(var)
    ELSE Then(ParseComment(elem), var, LAMBDA docs :
      Ok([var EXCEPT
            !.access = access,
            !.is_static = Attr(elem, "static") = "yes",
            !.is_mutable = Attr(elem, "mutable") = "yes",
            !.is_constexpr =
              (IF HasAttr(elem, "constexpr") THEN Attr(elem, "constexpr") ELSE "no") = "yes",
            !.name = Text(GetChild(elem, "name")),
            !.qualified_name = Text(GetChild(elem, "qualifiedname")),
            !.definition = Text(GetChild(elem, "definition")),
            !.docs = docs])))

RECURSIVE EnumValues(_, _)
\* parse_enum_definition: the loop over the enumvalue children, each pushed
\* onto the values the enum already holds
EnumValues(value_elems, values) ==
  IF value_elems = <<>> THEN Ok(values)
  ELSE IF ~HasChild(Head(value_elems), "name") THEN Panic(values)
  ELSE Then(ParseComment(Head(value_elems)), values, LAMBDA docs :
    EnumValues(Tail(value_elems),
      Append(values,
        [NewEnumValue EXCEPT
           !.name = Text(GetChild(Head(value_elems), "name")),
           !.initializer =
             IF HasChild(Head(value_elems), "initializer")
               THEN Replace(Text(GetChild(Head(value_elems), "initializer")),
                            <<"=", " ">>, <<>>)
               ELSE @,
           !.docs = docs])))

\* parse_enum_definition
ParseEnumDefinition(elem, e) ==
  IF \E c \in {"name", "qualifiedname"} : ~HasChild(elem, c) THEN Panic(e)
  ELSE IF ~HasAttr(elem, "strong") THEN Panic(e)
  ELSE Then(ParseComment(elem), e, LAMBDA docs :
       Then(EnumValues(ChildrenNamed(elem, "enumvalue"), e.values), e, LAMBDA values :
         Ok([e EXCEPT
               !.name = Text(GetChild(elem, "name")),
               !.qualified_name = Text(GetChild(elem, "qualifiedname")),
               !.is_scoped = Attr(elem, "strong") = "yes",
               !.docs = docs,
               !.values = values])))

(***************************************************************************)
(* Declaration pass (parser.rs)                                            *)
(***************************************************************************)

\* parse_member_declaration, were it to append an enumvalue to the parent's
\* list without an insert into enum_values
ParseMemberDeclaration_NoInsert(registry, element, parent_id) ==
  LET parent == registry.compounds[parent_id]
      member_id == Attr(element, "refid")
      kind == Attr(element, "kind")
  IN IF ~HasAttr(element, "refid") \/ ~HasAttr(element, "kind") THEN Panic(registry)
     ELSE Ok(
       CASE kind = "define" ->
              [registry EXCEPT
                 !.defines = MapInsert(@, member_id, NewDefine),
                 !.compounds[parent_id].defines = Append(@, member_id)]
         [] kind = "variable" ->
              [registry EXCEPT
                 !.variables = MapInsert(@, member_id, NewVariable),
                 !.compounds[parent_id].variables = Append(@, member_id)]
         [] kind = "function" ->
              [registry EXCEPT
                 !.functions = MapInsert(@, member_id,
                                 NewFunction(parent.kind = "CLASS" \/ parent.kind = "STRUCT")),
                 !.compounds[parent_id].functions = Append(@, member_id)]
         [] kind = "enum" ->
              [registry EXCEPT
                 !.enums = MapInsert(@, member_id, NewEnum),
                 !.compounds[parent_id].enums = Append(@, member_id)]
         [] kind = "enumvalue" ->
              [registry EXCEPT !.compounds[parent_id].enum_values = Append(@, member_id)]
         [] OTHER -> registry)

\* parse_member_declaration, were it to panic on a kind it does not name
ParseMemberDeclaration_Fatal(registry, element, parent_id) ==
  LET parent == registry.compounds[parent_id]
      member_id == Attr(element, "refid")
      kind == Attr(element, "kind")
  IN IF ~HasAttr(element, "refid") \/ ~HasAttr(element, "kind") THEN Panic(registry)
     ELSE CASE kind = "define" ->
                 Ok([registry EXCEPT
                       !.defines = MapInsert(@, member_id, NewDefine),
                       !.compounds[parent_id].defines = Append(@, member_id)])
            [] kind = "friend" -> Ok(registry)
            [] kind = "typedef" -> Ok(registry)
            [] kind = "variable" ->
                 Ok([registry EXCEPT
                       !.variables = MapInsert(@, member_id, NewVariable),
                       !.compounds[parent_id].variables = Append(@, member_id)])
            [] kind = "function" ->
                 Ok([registry EXCEPT
                       !.functions = MapInsert(@, member_id,
                                       NewFunction(parent.kind = "CLASS" \/ parent.kind = "STRUCT")),
                       !.compounds[parent_id].functions = Append(@, member_id)])
            [] kind = "enum" ->
                 Ok([registry EXCEPT
                       !.enums = MapInsert(@, member_id, NewEnum),
                       !.compounds[parent_id].enums = Append(@, member_id)])
            [] kind = "enumvalue" ->
                 Ok([registry EXCEPT
                       !.enum_values = MapInsert(@, member_id, NewEnumValue),
                       !.compounds[parent_id].enum_values = Append(@, member_id)])
            [] OTHER -> Panic(registry)

\* parse_member_declaration
ParseMemberDeclaration(registry, element, parent_id) ==
  LET parent == registry.compounds[parent_id]
      member_id == Attr(element, "refid")
      kind == Attr(element, "kind")
  IN IF ~HasAttr(element, "refid") \/ ~HasAttr(element, "kind") THEN Panic(registry)
     ELSE Ok(
       CASE kind = "define" ->
              [registry EXCEPT
                 !.defines = MapInsert(@, member_id, NewDefine),
                 !.compounds[parent_id].defines = Append(@, member_id)]
         [] kind = "friend" -> registry
         [] kind = "typedef" -> registry
         [] kind = "variable" ->
              [registry EXCEPT
                 !.variables = MapInsert(@, member_id, NewVariable),
                 !.compounds[parent_id].variables = Append(@, member_id)]
         [] kind = "function" ->
              [registry EXCEPT
                 !.functions = MapInsert(@, member_id,
                                 NewFunction(parent.kind = "CLASS" \/ parent.kind = "STRUCT")),
                 !.compounds[parent_id].functions = Append(@, member_id)]
         [] kind = "enum" ->
              [registry EXCEPT
                 !.enums = MapInsert(@, member_id, NewEnum),
                 !.compounds[parent_id].enums = Append(@, member_id)]
         [] kind = "enumvalue" ->
              [registry EXCEPT
                 !.enum_values = MapInsert(@, member_id, NewEnumValue),
                 !.compounds[parent_id].enum_values = Append(@, member_id)]
         [] OTHER -> registry)

\* parse_class_declaration
ParseClassDeclaration(registry, ref_id, name, clazz) ==
  LET parts == Split(name, <<":", ":">>)
  IN [registry EXCEPT
        !.classes = MapInsert(@, ref_id, [clazz EXCEPT !.unqualified_name = parts[Len(parts)]])]

RECURSIVE MemberDeclarations(_, _, _)
\* parse_compound_declaration: the loop over the member children
MemberDeclarations(registry, members, compound_id) ==
  IF members = <<>> THEN Ok(registry)
  ELSE Bind(ParseMemberDeclaration(registry, Head(members), compound_id),
            LAMBDA r : MemberDeclarations(r, Tail(members), compound_id))

\* parse_compound_declaration: the match on the kind, with its class declaration
DeclareClass(registry, compound_id, name, kind) ==
  CASE kind = "CLASS" -> ParseClassDeclaration(registry, compound_id, name, NewClass)
    [] kind = "STRUCT" -> ParseClassDeclaration(registry, compound_id, name, NewStruct)
    [] kind = "INTERFACE" -> ParseClassDeclaration(registry, compound_id, name, NewInterface)
    [] OTHER -> registry

\* parse_compound_declaration
ParseCompoundDeclaration(registry, element) ==
  LET compound_id == Attr(element, "refid")
      name == IF HasChild(element, "name") THEN Text(GetChild(element, "name")) ELSE <<"?">>
  IN IF ~HasAttr(element, "refid") \/ ~HasAttr(element, "kind") THEN Panic(registry)
     ELSE Then(CompoundKindFromStr(Attr(element, "kind")), registry, LAMBDA kind :
            MemberDeclarations(
              AddCompound(DeclareClass(registry, compound_id, name, kind),
                          compound_id, kind, name),
              ChildrenNamed(element, "member"), compound_id))

(***************************************************************************)
(* Definition pass (parser.rs)                                             *)
(***************************************************************************)

\* parse_compound_definition on one memberdef, were it to pass over an enum
MemberDefinition_NoEnum(registry, member) ==
  LET member_id == Attr(member, "id")
      kind == Attr(member, "kind")
  IN IF ~HasAttr(member, "id") \/ ~HasAttr(member, "kind") THEN Panic(registry)
     ELSE CASE kind = "function" ->
                 IF member_id \notin DOMAIN registry.functions THEN Panic(registry)
                 ELSE Then(ParseFunctionDefinition(member, registry.functions[member_id]),
                           registry,
                           LAMBDA func : Ok([registry EXCEPT !.functions[member_id] = func]))
            [] kind = "variable" ->
                 IF member_id \notin DOMAIN registry.variables THEN Panic(registry)
                 ELSE Then(ParseVariableDefinition(member, registry.variables[member_id]),
                           registry,
                           LAMBDA var : Ok([registry EXCEPT !.variables[member_id] = var]))
            [] OTHER -> Ok(registry)

\* parse_compound_definition on one memberdef, were it to pass over a member
\* whose id is not declared
MemberDefinition_Skip(registry, member) ==
  LET member_id == Attr(member, "id")
      kind == Attr(member, "kind")
  IN IF ~HasAttr(member, "id") \/ ~HasAttr(member, "kind") THEN Panic(registry)
     ELSE CASE kind = "function" /\ member_id \in DOMAIN registry.functions ->
                 Then(ParseFunctionDefinition(member, registry.functions[member_id]),
                      registry,
                      LAMBDA func : Ok([registry EXCEPT !.functions[member_id] = func]))
            [] kind = "variable" /\ member_id \in DOMAIN registry.variables ->
                 Then(ParseVariableDefinition(member, registry.variables[member_id]),
                      registry,
                      LAMBDA var : Ok([registry EXCEPT !.variables[member_id] = var]))
            [] kind = "enum" /\ member_id \in DOMAIN registry.enums ->
                 Then(ParseEnumDefinition(member, registry.enums[member_id]),
                      registry,
                      LAMBDA e : Ok([registry EXCEPT !.enums[member_id] = e]))
            [] OTHER -> Ok(registry)

\* parse_compound_definition: one memberdef of a sectiondef
MemberDefinition(registry, member) ==
  LET member_id == Attr(member, "id")
      kind == Attr(member, "kind")
  IN IF ~HasAttr(member, "id") \/ ~HasAttr(member, "kind") THEN Panic(registry)
     ELSE CASE kind = "function" ->
                 IF member_id \notin DOMAIN registry.functions THEN Panic(registry)
                 ELSE Then(ParseFunctionDefinition(member, registry.functions[member_id]),
                           registry,
                           LAMBDA func : Ok([registry EXCEPT !.functions[member_id] = func]))
            [] kind = "variable" ->
                 IF member_id \notin DOMAIN registry.variables THEN Panic(registry)
                 ELSE Then(ParseVariableDefinition(member, registry.variables[member_id]),
                           registry,
                           LAMBDA var : Ok([registry EXCEPT !.variables[member_id] = var]))
            [] kind = "enum" ->
                 IF member_id \notin DOMAIN registry.enums THEN Panic(registry)
                 ELSE Then(ParseEnumDefinition(member, registry.enums[member_id]),
                           registry,
                           LAMBDA e : Ok([registry EXCEPT !.enums[member_id] = e]))
            [] OTHER -> Ok(registry)

RECURSIVE MemberDefinitions(_, _)
\* parse_compound_definition: the loop over the memberdef children of a sectiondef
MemberDefinitions(registry, members) ==
  IF members = <<>> THEN Ok(registry)
  ELSE Bind(MemberDefinition(registry, Head(members)),
            LAMBDA r : MemberDefinitions(r, Tail(members)))

\* parse_compound_definition on one child, were an innerclass to clear the
\* title of every compound
CompoundChild_ClearTitles(registry, compound_id, elem) ==
  CASE elem.name = "title" ->
         Then(ParseText(elem), registry,
              LAMBDA title : Ok([registry EXCEPT !.compounds[compound_id].title = title]))
    [] elem.name = "innerclass" ->
         Ok([registry EXCEPT
               !.compounds = [id \in DOMAIN @ |->
                                IF id = compound_id
                                  THEN [@[id] EXCEPT !.title = <<>>,
                                                     !.classes = Append(@, Attr(elem, "refid"))]
                                  ELSE [@[id] EXCEPT !.title = <<>>]]])
    [] elem.name = "sectiondef" ->
         MemberDefinitions(registry, ChildrenNamed(elem, "memberdef"))
    [] elem.name = "templateparamlist" ->
         IF compound_id \notin DOMAIN registry.classes THEN Ok(registry)
         ELSE Then(ParseTemplateArgs(elem), registry,
                   LAMBDA template_args :
                     Ok([registry EXCEPT !.classes[compound_id].template_args = template_args]))
    [] OTHER -> Ok(registry)

\* parse_compound_definition: one child of the compounddef
CompoundChild(registry, compound_id, elem) ==
  CASE elem.name = "title" ->
         Then(ParseText(elem), registry,
              LAMBDA title : Ok([registry EXCEPT !.compounds[compound_id].title = title]))
    [] elem.name = "innergroup" ->
         Ok(IF HasAttr(elem, "refid")
              THEN [registry EXCEPT
                      !.compounds[compound_id].groups = Append(@, Attr(elem, "refid"))]
              ELSE registry)
    [] elem.name = "innerclass" ->
         Ok(IF HasAttr(elem, "refid")
              THEN [registry EXCEPT
                      !.compounds[compound_id].classes = Append(@, Attr(elem, "refid"))]
              ELSE registry)
    [] elem.name = "innernamespace" ->
         Ok(IF HasAttr(elem, "refid")
              THEN [registry EXCEPT
                      !.compounds[compound_id].namespaces = Append(@, Attr(elem, "refid"))]
              ELSE registry)
    [] elem.name = "sectiondef" ->
         MemberDefinitions(registry, ChildrenNamed(elem, "memberdef"))
    [] elem.name = "templateparamlist" ->
         IF compound_id \notin DOMAIN registry.classes THEN Ok(registry)
         ELSE Then(ParseTemplateArgs(elem), registry,
                   LAMBDA template_args :
                     Ok([registry EXCEPT !.classes[compound_id].template_args = template_args]))
    [] OTHER -> Ok(registry)

RECURSIVE CompoundChildren(_, _, _)
\* parse_compound_definition: the loop over element.children()
CompoundChildren(registry, compound_id, elems) ==
  IF elems = <<>> THEN Ok(registry)
  ELSE Bind(CompoundChild(registry, compound_id, Head(elems)),
            LAMBDA r : CompoundChildren(r, compound_id, Tail(elems)))

\* parse_compound_definition
ParseCompoundDefinition(element, registry) ==
  LET kind == Attr(element, "kind")
      compound_id == Attr(element, "id")
  IN IF ~HasAttr(element, "kind") THEN Panic(registry)
     ELSE IF kind = "file" \/ kind = "namespace" THEN Ok(registry)
     ELSE IF ~HasAttr(element, "id") THEN Panic(registry)
     ELSE IF compound_id \notin DOMAIN registry.compounds THEN Panic(registry)
     ELSE CompoundChildren(registry, compound_id, Children(element))

RECURSIVE CompoundDefinitions(_, _)
\* parse_generic_file: the loop over the compounddef children of the root
CompoundDefinitions(elems, registry) ==
  IF elems = <<>> THEN Ok(registry)
  ELSE Bind(ParseCompoundDefinition(Head(elems), registry),
            LAMBDA r : CompoundDefinitions(Tail(elems), r))

\* the root of a file that fs::read_to_string cannot read or that does not
\* parse as XML
Unreadable == El("#unreadable", NoAttrs, <<>>)

\* parse_xml_file, on the root its file holds
ParseXmlFile(root) == IF root = Unreadable THEN Panic(root) ELSE Ok(root)

\* parse_generic_file, were it not to compare the file name with index.xml
ParseGenericFile_AnyName(entry, registry) ==
  IF ~entry.is_file THEN Ok(registry)
  ELSE IF entry.extension = "" THEN Panic(registry)
  ELSE IF entry.extension = "xml"
    THEN Then(ParseXmlFile(entry.root), registry, LAMBDA root_element :
           CompoundDefinitions(ChildrenNamed(root_element, "compounddef"), registry))
    ELSE Ok(registry)

\* parse_generic_file on one directory entry [is_file, extension, file_name, root];
\* extension = "" is a path without one, on which extension().unwrap() panics
ParseGenericFile(entry, registry) ==
  IF ~entry.is_file THEN Ok(registry)
  ELSE IF entry.extension = "" THEN Panic(registry)
  ELSE IF entry.extension = "xml" /\ entry.file_name # "index.xml"
    THEN Then(ParseXmlFile(entry.root), registry, LAMBDA root_element :
           CompoundDefinitions(ChildrenNamed(root_element, "compounddef"), registry))
    ELSE Ok(registry)

(***************************************************************************)
(* The input: index.xml and the other files of the input directory.        *)
(*                                                                         *)
(* The inputs explored are those of at most MaxInput elements, in two      *)
(* shapes: any index over IndexKinds and MemberElems with a directory that *)
(* holds index.xml alone, and an index whose members are all in            *)
(* DefinableMembers with a directory of definition files over              *)
(* DefinitionRoots.  Identifiers are opaque                                *)
(* to the program, so the first compound identifier of an index is c1 and  *)
(* its first member identifier m1.                                         *)
(***************************************************************************)

\* the greatest number of elements of an input: each compound and member
\* element of the index, and each child (for a sectiondef, each memberdef) of
\* the compounddef of a file, a file without any counting as one
MaxInput == 4

\* the greatest number of elements the compounddef of one file counts for
MaxChildren == 2

CompoundIds == {"c1", "c2"}

\* the kind attributes of the compound elements of the index; "union" is a
\* kind CompoundKind::from_str does not name
IndexKinds == {"class", "struct", "group", "union"}

\* the kind attributes of the member elements of the index; "property" is a
\* kind parse_member_declaration does not name
MemberKinds ==
  {"define", "friend", "typedef", "variable", "function", "enum", "enumvalue", "property"}

\* the file names of the directory's files other than index.xml, in the order
\* read_dir yields them
FileNames == <<"a.xml", "b.xml", "c.xml", "d.xml", "e.xml", "f.xml", "g.xml", "h.xml">>

RECURSIVE SeqsUpTo(_, _)
\* the sequences over S of length at most n
SeqsUpTo(S, n) ==
  IF n <= 0 THEN {<<>>}
  ELSE LET shorter == SeqsUpTo(S, n - 1)
       IN shorter \cup {Append(q, x) : q \in shorter, x \in S}

\* <name>, <type>, ... : an element holding one text
TextEl(name, s) == El(name, NoAttrs, <<Tx(s)>>)

\* the display names of the compounds: "ns::A" for classes and structs, "B"
\* for groups
CompoundName(kind) ==
  IF kind \in {"class", "struct"} THEN <<"n", "s", ":", ":", "A">> ELSE <<"B">>

\* <member refid=.. kind=../>
MemberElem(id, kind) == El("member", [refid |-> id, kind |-> kind], <<>>)
\* the member elements of the index: m1 of every kind, and a function m2
MemberElems == {MemberElem("m1", k) : k \in MemberKinds} \cup {MemberElem("m2", "function")}

\* the members that a definition file can define
DefinableMembers == {MemberElem("m1", k) : k \in {"function", "variable", "enum"}}

\* <compound refid=.. kind=..><name>..</name><member/>..</compound>
CompoundElem(id, kind, members) ==
  El("compound", [refid |-> id, kind |-> kind], <<TextEl("name", CompoundName(kind))>> \o members)

\* the compound elements with at most n members, by n
CompoundElems ==
  [n \in 0..(MaxInput - 1) |->
     {CompoundElem(id, k, members) :
        id \in CompoundIds, k \in IndexKinds, members \in SeqsUpTo(MemberElems, n)}]

\* <memberdef kind="function">: int f(const T a, const T a), documented
FunctionDefA(id) ==
  El("memberdef",
     [id |-> id, kind |-> "function", prot |-> "public", static |-> "no", const |-> "yes",
      explicit |-> "no", inline |-> "no", virt |-> "non-virtual"],
     <<TextEl("type", <<"i", "n", "t">>),
       TextEl("definition", <<"i", "n", "t", " ", "f">>),
       TextEl("argsstring", <<"(", "c", "o", "n", "s", "t", " ", "T", " ", "a", ")">>),
       TextEl("name", <<"f">>),
       El("param", NoAttrs, <<TextEl("declname", <<"a">>)>>),
       El("param", NoAttrs, <<TextEl("declname", <<"a">>)>>),
       El("briefdescription", NoAttrs, <<TextEl("para", <<" ", "F", " ">>)>>)>>)

\* <memberdef kind="function">: private static auto g() -> T
FunctionDefB(id) ==
  El("memberdef",
     [id |-> id, kind |-> "function", prot |-> "private", static |-> "yes", const |-> "no",
      explicit |-> "no", inline |-> "yes", virt |-> "virtual"],
     <<TextEl("type", <<"a", "u", "t", "o">>),
       TextEl("definition", <<"a", "u", "t", "o", " ", "g">>),
       TextEl("argsstring", <<"(", ")", " ", "-", ">", " ", "T">>),
       TextEl("name", <<"g">>),
       TextEl("qualifiedname", <<"n", "s", ":", ":", "g">>)>>)

\* <memberdef kind="variable">: public static T v
VariableDef(id) ==
  El("memberdef",
     [id |-> id, kind |-> "variable", prot |-> "public", static |-> "yes", mutable |-> "no"],
     <<TextEl("definition", <<"T", " ", "v">>),
       TextEl("name", <<"v">>),
       TextEl("qualifiedname", <<"v">>)>>)

\* <memberdef kind="enum">: enum class E { V = 1 }
EnumDef(id) ==
  El("memberdef",
     [id |-> id, kind |-> "enum", strong |-> "yes"],
     <<TextEl("name", <<"E">>),
       TextEl("qualifiedname", <<"E">>),
       El("enumvalue", [id |-> "v1"],
          <<TextEl("name", <<"V">>), TextEl("initializer", <<"=", " ", "1">>)>>)>>)

\* <memberdef kind="typedef">, a kind parse_compound_definition passes over
TypedefDef(id) == El("memberdef", [id |-> id, kind |-> "typedef"], <<TextEl("name", <<"t">>)>>)

\* the memberdef elements
MemberDefs ==
  {FunctionDefA("m1"), FunctionDefB("m1"), VariableDef("m1"), EnumDef("m1"), TypedefDef("m1")}

\* the children of a compounddef other than sectiondef
PlainChildren ==
  {TextEl("title", <<"T">>),
   El("templateparamlist", NoAttrs, <<El("param", NoAttrs, <<TextEl("type", <<"U">>)>>)>>)}
  \cup {El(tag, [refid |-> "c2"], <<>>) : tag \in {"innergroup", "innerclass", "innernamespace"}}

RECURSIVE ChildSeqsTable(_)
\* the sets of sequences of children of a compounddef that count for at most
\* 0, 1, .. n elements; a sectiondef holds at least one memberdef
ChildSeqsTable(n) ==
  IF n = 0 THEN <<{<<>>}>>
  ELSE LET table == ChildSeqsTable(n - 1)
       IN Append(table,
                 table[n]
                 \cup {Append(q, c) : q \in table[n], c \in PlainChildren}
                 \cup UNION {{Append(q, El("sectiondef", NoAttrs, defs)) :
                                q \in table[n - k + 1],
                                defs \in SeqsUpTo(MemberDefs, k) \ SeqsUpTo(MemberDefs, k - 1)} :
                             k \in 1..n})

\* the sequences of children of a compounddef that count for at most n
\* elements, by n
ChildSeqs == LET table == ChildSeqsTable(MaxChildren) IN [n \in 0..MaxChildren |-> table[n + 1]]

\* <doxygen><compounddef id=.. kind=..>..</compounddef></doxygen>
DefinitionRoot(id, kind, children) ==
  El("doxygen", NoAttrs, <<El("compounddef", [id |-> id, kind |-> kind], children)>>)

\* the children of the compounddef of a namespace, which parse_compound_definition
\* does not look at
NamespaceChildren == {<<>>, <<El("sectiondef", NoAttrs, <<FunctionDefA("m1")>>)>>}

\* the root elements of the definition files that count for at most n
\* elements, by n: the groups c1 and c2 and the namespace c1
DefinitionRoots ==
  [n \in 0..MaxInput |->
     IF n = 0 THEN {}
     ELSE {DefinitionRoot(id, "group", children) :
             id \in CompoundIds, children \in ChildSeqs[IF n < MaxChildren THEN n ELSE MaxChildren]}
          \cup {DefinitionRoot("c1", "namespace", children) : children \in NamespaceChildren}]

\* a compounddef element in index.xml, which parse_index_file passes over
StrayDefinition ==
  El("compounddef", [id |-> "c1", kind |-> "group"], <<TextEl("title", <<"T">>)>>)

RECURSIVE SumSizes(_)
\* the sum of a sequence of numbers
SumSizes(sizes) == IF sizes = <<>> THEN 0 ELSE Head(sizes) + SumSizes(Tail(sizes))

\* the member elements of a sequence of compound elements
MembersOf(compounds) ==
  Concat([i \in 1..Len(compounds) |-> ChildrenNamed(compounds[i], "member")])

\* the number of elements of the compounds an index holds
IndexSize(compounds) == Len(compounds) + Len(MembersOf(compounds))

\* the number of elements a child of a compounddef counts for
ChildSize(child) == IF child.name = "sectiondef" THEN Len(child.nodes) ELSE 1

\* the number of elements of the files of a directory listing; the compound
\* elements of index.xml are counted with the index, and an entry without a
\* document counts as one
FilesSize(entries) ==
  SumSizes([i \in 1..Len(entries) |->
              IF entries[i].root = Unreadable THEN 1
              ELSE IF entries[i].file_name = "index.xml"
                THEN Len(ChildrenNamed(entries[i].root, "compounddef"))
                ELSE LET children == entries[i].root.nodes[1].nodes
                         size == SumSizes([j \in 1..Len(children) |-> ChildSize(children[j])])
                     IN IF size = 0 THEN 1 ELSE size])

\* an index names its identifiers in order: c1 before c2 and m1 before m2
InOrder(compounds) ==
  LET members == MembersOf(compounds)
  IN /\ compounds # <<>> => Attr(compounds[1], "refid") = "c1"
     /\ members # <<>> => Attr(members[1], "refid") = "m1"

\* an index all of whose members a definition file can define
Definable(compounds) ==
  LET members == MembersOf(compounds)
  IN \A i \in 1..Len(members) : members[i] \in DefinableMembers

(***************************************************************************)
(* parse_xml as a state machine                                            *)
(***************************************************************************)

VARIABLES
  pc,        \* where parse_xml is: "parse_index_file", "read_dir", "returned", "panicked"
  index,     \* the compound elements of index.xml parse_index_file has gone through
  files,     \* the directory entries read_dir has yielded, in the order it yielded them
  registry,  \* the Registry
  first      \* the Registry as one definition pass left it, once a second one has run

vars == <<pc, index, files, registry, first>>

\* no Registry kept
NoRegistry == [NewRegistry EXCEPT !.compounds = [k \in {"none"} |-> NewCompound]]

Init ==
  /\ pc = "parse_index_file"
  /\ index = <<>>
  /\ files = <<>>
  /\ registry = NewRegistry
  /\ first = NoRegistry

InputSize == IndexSize(index) + FilesSize(files)

\* the directory entry of index.xml: the compound elements parse_index_file
\* went through, followed by the elements it passed over
IndexEntry(others) ==
  [is_file |-> TRUE, extension |-> "xml", file_name |-> "index.xml",
   root |-> El("doxygenindex", NoAttrs, index \o others)]

\* the directory entries index.xml can be: an index of compound elements, and
\* one that holds a compounddef element as well
IndexEntries ==
  {IndexEntry(<<>>)}
  \cup (IF InputSize < MaxInput THEN {IndexEntry(<<StrayDefinition>>)} ELSE {})

\* the directory entry of the next definition file
DefinitionEntry(root) ==
  [is_file |-> TRUE, extension |-> "xml", file_name |-> FileNames[Len(files) + 1],
   root |-> root]

\* the file names read_dir has yielded
Yielded == {files[i].file_name : i \in 1..Len(files)}

\* parse_index_file: one turn of its loop, parse_compound_declaration on the
\* next compound element of index.xml
DeclareCompound ==
  /\ pc = "parse_index_file"
  /\ InputSize < MaxInput
  /\ \E element \in CompoundElems[MaxInput - InputSize - 1] :
       /\ InOrder(Append(index, element))
       /\ index' = Append(index, element)
       /\ \E r \in {ParseCompoundDeclaration(registry, element)} :
            /\ registry' = r.v
            /\ pc' = IF r.ok THEN "parse_index_file" ELSE "panicked"
  /\ UNCHANGED <<files, first>>

\* parse_index_file returns at the end of index.xml and parse_xml calls read_dir
ReadDir ==
  /\ pc = "parse_index_file"
  /\ pc' = "read_dir"
  /\ UNCHANGED <<index, files, registry, first>>

\* parse_xml: one turn of its loop, parse_generic_file on the next entry of
\* the directory, which is index.xml or a definition file
ParseFile ==
  /\ pc = "read_dir"
  /\ \E entry \in (IF "index.xml" \in Yielded THEN {} ELSE IndexEntries)
                  \cup (IF Definable(index)
                          THEN {DefinitionEntry(root) :
                                  root \in DefinitionRoots[MaxInput - InputSize]}
                          ELSE {}) :
       /\ files' = Append(files, entry)
       /\ \E r \in {ParseGenericFile(entry, registry)} :
            /\ registry' = r.v
            /\ pc' = IF r.ok THEN "read_dir" ELSE "panicked"
  /\ UNCHANGED <<index, first>>

\* parse_xml returns the Registry once read_dir is exhausted
Return ==
  /\ pc = "read_dir"
  /\ "index.xml" \in Yielded
  /\ pc' = "returned"
  /\ UNCHANGED <<index, files, registry, first>>

Next == DeclareCompound \/ ReadDir \/ ParseFile \/ Return

Spec == Init /\ [][Next]_vars

(***************************************************************************)
(* The definition pass run a second time over the same directory           *)
(***************************************************************************)

RECURSIVE GenericFiles(_, _)
\* parse_xml: the loop over the entries of read_dir
GenericFiles(entries, reg) ==
  IF entries = <<>> THEN Ok(reg)
  ELSE Bind(ParseGenericFile(Head(entries), reg),
            LAMBDA r : GenericFiles(Tail(entries), r))

\* the loop of parse_xml over read_dir once more, on the Registry the first
\* run of the loop left
SecondPass ==
  /\ pc = "returned"
  /\ first = NoRegistry
  /\ first' = registry
  /\ \E r \in {GenericFiles(files, registry)} :
       /\ registry' = r.v
       /\ pc' = IF r.ok THEN "returned" ELSE "panicked"
  /\ UNCHANGED <<index, files>>

NextTwice == Next \/ SecondPass

SpecTwice == Init /\ [][NextTwice]_vars

(***************************************************************************)
(* main, with the errors of the file system                                *)
(***************************************************************************)

\* an item of read_dir that is an Err and so has no path
ErrEntry == [is_file |-> FALSE, extension |-> "", file_name |-> "#err", root |-> Unreadable]

\* parse_index_file on an index.xml that parse_xml_file cannot read
IndexUnreadable ==
  /\ pc = "parse_index_file"
  /\ index = <<>>
  /\ pc' = "panicked"
  /\ UNCHANGED <<index, files, registry, first>>

\* parse_xml: fs::read_dir(input_dir) is an Err, and unwrap panics
ReadDirFails ==
  /\ pc = "parse_index_file"
  /\ pc' = "panicked"
  /\ UNCHANGED <<index, files, registry, first>>

\* parse_xml: one turn of its loop on an item of read_dir that is an Err, which
\* is printed
SkipEntry ==
  /\ pc = "read_dir"
  /\ InputSize < MaxInput
  /\ files' = Append(files, ErrEntry)
  /\ UNCHANGED <<pc, index, registry, first>>

\* parse_xml: one turn of its loop, parse_generic_file on a definition file
\* that parse_xml_file cannot read
ParseUnreadableFile ==
  /\ pc = "read_dir"
  /\ InputSize < MaxInput
  /\ \E entry \in {DefinitionEntry(Unreadable)} :
       /\ files' = Append(files, entry)
       /\ \E r \in {ParseGenericFile(entry, registry)} :
            /\ registry' = r.v
            /\ pc' = IF r.ok THEN "read_dir" ELSE "panicked"
  /\ UNCHANGED <<index, first>>

\* main calls generate_markdown on the Registry parse_xml returned
GenerateMarkdown ==
  /\ pc = "returned"
  /\ pc' = "generate_markdown"
  /\ UNCHANGED <<index, files, registry, first>>

NextMain ==
  \/ Next
  \/ IndexUnreadable
  \/ ReadDirFails
  \/ SkipEntry
  \/ ParseUnreadableFile
  \/ GenerateMarkdown

SpecMain == Init /\ [][NextMain]_vars

(***************************************************************************)
(* Properties                                                              *)
(***************************************************************************)

RECURSIVE CompoundDeclarations(_, _)
\* parse_index_file: the loop over the compound children, from Registry reg
CompoundDeclarations(compounds, reg) ==
  IF compounds = <<>> THEN Ok(reg)
  ELSE Bind(ParseCompoundDeclaration(reg, Head(compounds)),
            LAMBDA r : CompoundDeclarations(Tail(compounds), r))

\* the declaration pass is over and the definition pass has not begun
Declared == pc = "read_dir" /\ files = <<>>

\* the member kinds parse_member_declaration declares an entity for
EntityKinds == {"define", "variable", "function", "enum", "enumvalue"}

\* the mapping of the Registry that holds the members of a kind
CategoryOf(reg, kind) ==
  CASE kind = "define" -> reg.defines
    [] kind = "variable" -> reg.variables
    [] kind = "function" -> reg.functions
    [] kind = "enum" -> reg.enums
    [] kind = "enumvalue" -> reg.enum_values

\* the values a member of a kind has when no field but a function's
\* is_member is set
DefaultsOf(kind) ==
  CASE kind = "define" -> {NewDefine}
    [] kind = "variable" -> {NewVariable}
    [] kind = "function" -> {NewFunction(TRUE), NewFunction(FALSE)}
    [] kind = "enum" -> {NewEnum}
    [] kind = "enumvalue" -> {NewEnumValue}

\* the lists of a compound that name its declared members
MemberLists == {"defines", "variables", "functions", "enums", "enum_values"}

\* after the declaration pass every compound and every member of an entity
\* kind is found in its mapping; a class has no template arguments, a member
\* has its default value, and a compound has the value of Compound::new in
\* every field not in set
DeclaredWithDefaults(set) ==
  Declared =>
    \A i \in 1..Len(index) :
      LET id == Attr(index[i], "refid")
          members == ChildrenNamed(index[i], "member")
      IN /\ id \in DOMAIN registry.compounds
         /\ \A f \in DOMAIN NewCompound \ set : registry.compounds[id][f] = NewCompound[f]
         /\ Attr(index[i], "kind") \in {"class", "struct"} =>
              /\ id \in DOMAIN registry.classes
              /\ registry.classes[id].template_args = <<>>
         /\ \A j \in 1..Len(members) :
              LET kind == Attr(members[j], "kind")
                  member_id == Attr(members[j], "refid")
              IN kind \in EntityKinds =>
                   /\ member_id \in DOMAIN CategoryOf(registry, kind)
                   /\ CategoryOf(registry, kind)[member_id] \in DefaultsOf(kind)

\* C1, as stated: after the declaration pass every compound and every member
\* of kind define, variable, function, enum or enumvalue is found in the
\* mapping of its category, with the default value in every field but a
\* compound's name and kind, a class's unqualified name and struct and
\* interface flags, and a function's is_member flag.
C1_Original == DeclaredWithDefaults({"name", "kind"})

\* C1, amended: after the declaration pass every compound and every member
\* of kind define, variable, function, enum or enumvalue is found in the
\* mapping of its category, with the default value in every field but a
\* compound's name, kind and lists of declared members (defines, variables,
\* functions, enums, enum_values), a class's unqualified name and struct and
\* interface flags, and a function's is_member flag.
C1_DeclaredWithDefaults == DeclaredWithDefaults({"name", "kind"} \cup MemberLists)

\* the declaration pass is over on an index that holds a class with a
\* function, and the class lists the function
C1_Witness ==
  /\ Declared
  /\ \E i \in 1..Len(index) :
       /\ Attr(index[i], "kind") = "class"
       /\ MemberElem("m1", "function") \in {index[i].nodes[j] : j \in 1..Len(index[i].nodes)}
       /\ registry.compounds[Attr(index[i], "refid")].functions # <<>>

\* the keys of the mappings of a Registry
KeysOf(reg) == [f \in DOMAIN reg |-> DOMAIN reg[f]]

\* C2: a compound is declared only while no directory entry has been gone
\* through; a step of the definition pass inserts no key into any mapping;
\* and the step that goes through index.xml leaves the Registry as it is and
\* does not abort.
C2_DeclarationBeforeDefinition ==
  [][/\ index' # index => files = <<>> /\ files' = <<>>
     /\ files' # files =>
          /\ index' = index
          /\ KeysOf(registry') = KeysOf(registry)
          /\ files'[Len(files')].file_name = "index.xml" =>
               registry' = registry /\ pc' = "read_dir"]_vars

\* index.xml, holding a compounddef element of a declared compound, has been
\* gone through after a definition file changed the Registry
C2_Witness ==
  /\ pc = "read_dir"
  /\ Len(files) = 2
  /\ files[2] = IndexEntry(<<StrayDefinition>>)
  /\ "c1" \in DOMAIN registry.compounds
  /\ registry.compounds["c1"].title = <<>>
  /\ registry # CompoundDeclarations(index, NewRegistry).v

\* every identifier of the lists of compound c is a key of the mapping of
\* its category
ListsResolve(reg, c) ==
  /\ \A i \in 1..Len(c.groups) : c.groups[i] \in DOMAIN reg.compounds
  /\ \A i \in 1..Len(c.namespaces) : c.namespaces[i] \in DOMAIN reg.compounds
  /\ \A i \in 1..Len(c.classes) : c.classes[i] \in DOMAIN reg.classes
  /\ \A i \in 1..Len(c.enums) : c.enums[i] \in DOMAIN reg.enums
  /\ \A i \in 1..Len(c.enum_values) : c.enum_values[i] \in DOMAIN reg.enum_values
  /\ \A i \in 1..Len(c.functions) : c.functions[i] \in DOMAIN reg.functions
  /\ \A i \in 1..Len(c.variables) : c.variables[i] \in DOMAIN reg.variables
  /\ \A i \in 1..Len(c.defines) : c.defines[i] \in DOMAIN reg.defines

\* C3, as stated: in the Registry parse_xml returns, every identifier of
\* every list of every compound is a key of the mapping of its category.
C3_ListsResolve ==
  pc = "returned" =>
    \A id \in DOMAIN registry.compounds : ListsResolve(registry, registry.compounds[id])

\* parse_xml has returned on an index that declares the group c1 alone and a
\* file of c1 with an innerclass of refid c2: c1 lists the class c2, and
\* classes has no key
C3_Witness ==
  /\ pc = "returned"
  /\ index = <<CompoundElem("c1", "group", <<>>)>>
  /\ Len(files) = 2
  /\ files[1].root = DefinitionRoot("c1", "group", <<El("innerclass", [refid |-> "c2"], <<>>)>>)
  /\ registry.compounds["c1"].classes = <<"c2">>
  /\ DOMAIN registry.classes = {}

\* the Registry the declaration pass leaves on the index
DeclaredRegistry == CompoundDeclarations(index, NewRegistry).v

\* the compounddef elements of the definition files of a directory listing
DefinitionsOf(entries) ==
  Concat([i \in 1..Len(entries) |->
            IF entries[i].file_name = "index.xml" THEN <<>>
            ELSE ChildrenNamed(entries[i].root, "compounddef")])

\* the memberdef elements of the sectiondef children of a compounddef
MemberDefsOf(definition) ==
  LET sections == ChildrenNamed(definition, "sectiondef")
  IN Concat([i \in 1..Len(sections) |-> ChildrenNamed(sections[i], "memberdef")])

\* the kinds of compounddef parse_compound_definition returns on at once
SkippedKinds == {"file", "namespace"}

\* the kinds of memberdef parse_compound_definition resolves
DefinedKinds == {"function", "variable", "enum"}

\* a compounddef of the compound's id, of a kind not in skipped, holds a
\* memberdef of the same id and kind for each member of the compound whose
\* kind is in kinds
HasDocument(compound, definitions, skipped, kinds) ==
  \E k \in 1..Len(definitions) :
    LET members == ChildrenNamed(compound, "member")
        defs == MemberDefsOf(definitions[k])
    IN /\ Attr(definitions[k], "id") = Attr(compound, "refid")
       /\ Attr(definitions[k], "kind") \notin skipped
       /\ \A i \in 1..Len(members) :
            Attr(members[i], "kind") \in kinds =>
              \E j \in 1..Len(defs) :
                /\ Attr(defs[j], "id") = Attr(members[i], "refid")
                /\ Attr(defs[j], "kind") = Attr(members[i], "kind")
                /\ HasChild(defs[j], "name") /\ Text(GetChild(defs[j], "name")) # <<>>

\* no function, variable or enum of a list of a compound has a default value
MembersPopulated ==
  \A id \in DOMAIN registry.compounds :
    LET c == registry.compounds[id]
    IN /\ \A i \in 1..Len(c.functions) :
            registry.functions[c.functions[i]] \notin DefaultsOf("function")
       /\ \A i \in 1..Len(c.variables) :
            registry.variables[c.variables[i]] \notin DefaultsOf("variable")
       /\ \A i \in 1..Len(c.enums) : registry.enums[c.enums[i]] \notin DefaultsOf("enum")

\* no class of the classes list of a compound is as the declaration pass
\* left it
ClassesPopulated ==
  \A id \in DOMAIN registry.compounds :
    LET c == registry.compounds[id]
    IN \A i \in 1..Len(c.classes) :
         c.classes[i] \in DOMAIN registry.classes =>
           registry.classes[c.classes[i]] # DeclaredRegistry.classes[c.classes[i]]

\* C4, as stated: when parse_xml returns on an input where every compound
\* of the index has a compounddef with a memberdef for each of its members,
\* no function, variable, enum or class of a list of a compound is as the
\* declaration pass left it.
C4_Original ==
  (/\ pc = "returned"
   /\ \A i \in 1..Len(index) :
        HasDocument(index[i], DefinitionsOf(files), {}, MemberKinds))
    => MembersPopulated /\ ClassesPopulated

\* C4, amended: when parse_xml returns on an input where every compound of
\* the index has a compounddef, of a kind other than file and namespace,
\* with a memberdef of the same kind and a name that is not empty for each of
\* its function, variable and enum members, no function, variable or enum
\* of a list of a compound is as the declaration pass left it.
C4_MembersPopulated ==
  (/\ pc = "returned"
   /\ \A i \in 1..Len(index) :
        HasDocument(index[i], DefinitionsOf(files), SkippedKinds, DefinedKinds))
    => MembersPopulated

\* parse_xml has returned on an index with a function and a compounddef
\* that defines it
C4_Witness ==
  /\ pc = "returned"
  /\ index # <<>>
  /\ \A i \in 1..Len(index) :
       HasDocument(index[i], DefinitionsOf(files), SkippedKinds, DefinedKinds)
  /\ registry.compounds["c1"].functions = <<"m1">>
  /\ registry.functions["m1"].name = <<"f">>

\* the lists of a compound, which the definition pass appends to
Lists == {"groups", "namespaces", "classes"} \cup MemberLists

\* C5, as stated: after the definition pass has run twice over the same
\* files, the Registry equals the Registry after one run in every field but
\* the lists of the compounds: every class, function, variable, enum, enum
\* value and define is equal, an enum's values included.
C5_SecondPassEqual ==
  (pc = "returned" /\ first # NoRegistry) =>
    /\ \A f \in DOMAIN registry \ {"compounds"} : registry[f] = first[f]
    /\ DOMAIN registry.compounds = DOMAIN first.compounds
    /\ \A id \in DOMAIN registry.compounds :
         \A f \in DOMAIN NewCompound \ Lists :
           registry.compounds[id][f] = first.compounds[id][f]

\* the definition pass has run twice over a file that defines the enum m1
\* with one value: the enum held one value after the first run and holds
\* two
C5_Witness ==
  /\ pc = "returned"
  /\ first # NoRegistry
  /\ index = <<CompoundElem("c1", "group", <<MemberElem("m1", "enum")>>)>>
  /\ Len(files) = 2
  /\ files[1].root
       = DefinitionRoot("c1", "group", <<El("sectiondef", NoAttrs, <<EnumDef("m1")>>)>>)
  /\ Len(first.enums["m1"].values) = 1
  /\ Len(registry.enums["m1"].values) = 2

\* the permutations of 1..n, by n
Perms ==
  [n \in 0..MaxInput |->
     {p \in [1..n -> 1..n] : \A i, j \in 1..n : p[i] = p[j] => i = j}]

\* the orders read_dir can yield the entries in
Orders(entries) ==
  {[i \in 1..Len(entries) |-> entries[p[i]]] : p \in Perms[Len(entries)]}

\* the definition files of the directory listing, in the order read_dir
\* yielded them
DefinitionFiles ==
  SelectSeqBy(files, {e \in {files[i] : i \in 1..Len(files)} : e.file_name # "index.xml"})

\* the Registry is the one parse_xml returns on every order of the
\* definition files
SameOnEveryOrder ==
  \A o \in Orders(DefinitionFiles) : GenericFiles(o, DeclaredRegistry) = Ok(registry)

\* the entries of the Registry a directory entry mutates: the compound and
\* the class of each compounddef not skipped, and the members its memberdef
\* elements define
Mutated(entry) ==
  LET definitions == DefinitionsOf(<<entry>>)
  IN UNION {IF Attr(definitions[k], "kind") \in SkippedKinds THEN {}
            ELSE {<<"compound", Attr(definitions[k], "id")>>,
                  <<"class", Attr(definitions[k], "id")>>}
                 \cup {<<Attr(d, "kind"), Attr(d, "id")>> :
                         d \in {x \in {MemberDefsOf(definitions[k])[j] :
                                         j \in 1..Len(MemberDefsOf(definitions[k]))} :
                                  Attr(x, "kind") \in DefinedKinds}} :
            k \in 1..Len(definitions)}

\* each entry of the Registry is mutated by at most one file
MutatedOnce ==
  \A i, j \in 1..Len(files) : i # j => Mutated(files[i]) \cap Mutated(files[j]) = {}

\* C6, as stated: the Registry parse_xml returns is the same for every order
\* in which read_dir yields the files.
C6_Original == pc = "returned" => SameOnEveryOrder

\* C6, amended: when each entry of the Registry is mutated by at most one
\* file, the Registry parse_xml returns is the same for every order in which
\* read_dir yields the files.
C6_SameOnEveryOrder == (pc = "returned" /\ MutatedOnce) => SameOnEveryOrder

\* parse_xml has returned on two files that mutate different entries, each
\* of which changes the Registry
C6_Witness ==
  /\ pc = "returned"
  /\ MutatedOnce
  /\ \E i, j \in 1..Len(files) :
       /\ i # j
       /\ GenericFiles(<<files[i]>>, DeclaredRegistry).v # DeclaredRegistry
       /\ GenericFiles(<<files[j]>>, DeclaredRegistry).v # DeclaredRegistry

\* C7, as stated: once the declaration pass is over, every function that the
\* index declares as a member of a class or struct has is_member = TRUE, and
\* has it still when parse_xml returns.
C7_IsMember ==
  pc \in {"read_dir", "returned"} =>
    \A i \in 1..Len(index) :
      Attr(index[i], "kind") \in {"class", "struct"} =>
        \A j \in 1..Len(ChildrenNamed(index[i], "member")) :
          LET member == ChildrenNamed(index[i], "member")[j]
          IN Attr(member, "kind") = "function" =>
               registry.functions[Attr(member, "refid")].is_member

\* the declaration pass is over on an index that declares the function m1
\* under the class c1 and then under the group c2: c1 lists m1, whose
\* is_member is FALSE
C7_Witness ==
  /\ Declared
  /\ index = <<CompoundElem("c1", "class", <<MemberElem("m1", "function")>>),
               CompoundElem("c2", "group", <<MemberElem("m1", "function")>>)>>
  /\ registry.compounds["c1"].functions = <<"m1">>
  /\ ~registry.functions["m1"].is_member

\* the last element of a sequence
Last(seq) == seq[Len(seq)]

\* C8, as stated: the declaration of a compound whose id is a key of
\* compounds already fails and leaves the entry as it was, its lists
\* included; so does the declaration of a member whose id is a key of the
\* mapping of its kind.
C8_DeclaredOnce ==
  [][index' # index =>
       LET element == Last(index')
           members == ChildrenNamed(element, "member")
       IN /\ Attr(element, "refid") \in DOMAIN registry.compounds =>
               /\ pc' = "panicked"
               /\ registry'.compounds[Attr(element, "refid")]
                    = registry.compounds[Attr(element, "refid")]
          /\ \A j \in 1..Len(members) :
               LET kind == Attr(members[j], "kind")
                   id == Attr(members[j], "refid")
               IN (kind \in EntityKinds /\ id \in DOMAIN CategoryOf(registry, kind)) =>
                    /\ pc' = "panicked"
                    /\ CategoryOf(registry', kind)[id] = CategoryOf(registry, kind)[id]]_vars

\* the declaration pass is over on an index that declares the group c1 with
\* the function m1 and then c1 again without a member: the pass has not
\* panicked, and c1 lists no function
C8_Witness ==
  /\ Declared
  /\ index = <<CompoundElem("c1", "group", <<MemberElem("m1", "function")>>),
               CompoundElem("c1", "group", <<>>)>>
  /\ registry.compounds["c1"].functions = <<>>
  /\ "m1" \in DOMAIN registry.functions

\* a memberdef that parse_compound_definition resolves and whose id is not a
\* key of the mapping of its kind
UnresolvedMember(member, reg) ==
  /\ Attr(member, "kind") \in DefinedKinds
  /\ Attr(member, "id") \notin DOMAIN CategoryOf(reg, Attr(member, "kind"))

\* a compounddef that is not skipped and whose id is not a key of compounds
UnresolvedCompound(definition, reg) ==
  /\ Attr(definition, "kind") \notin SkippedKinds
  /\ Attr(definition, "id") \notin DOMAIN reg.compounds

\* a directory entry in which the definition pass resolves an id that is not
\* declared
HasUnresolved(entry, reg) ==
  \E k \in 1..Len(DefinitionsOf(<<entry>>)) :
    LET definition == DefinitionsOf(<<entry>>)[k]
        members == MemberDefsOf(definition)
    IN \/ UnresolvedCompound(definition, reg)
       \/ /\ Attr(definition, "kind") \notin SkippedKinds
          /\ \E j \in 1..Len(members) : UnresolvedMember(members[j], reg)

RECURSIVE ResolvedPrefix(_, _)
\* the memberdef elements before the first unresolved one
ResolvedPrefix(members, reg) ==
  IF members = <<>> \/ UnresolvedMember(Head(members), reg) THEN <<>>
  ELSE <<Head(members)>> \o ResolvedPrefix(Tail(members), reg)

RECURSIVE ChildrenBefore(_, _)
\* the children of a compounddef before the first unresolved memberdef
ChildrenBefore(children, reg) ==
  IF children = <<>> THEN <<>>
  ELSE LET child == Head(children)
           members == ChildrenNamed(child, "memberdef")
       IN IF child.name = "sectiondef" /\ \E j \in 1..Len(members) : UnresolvedMember(members[j], reg)
            THEN <<El("sectiondef", child.attrs, ResolvedPrefix(members, reg))>>
            ELSE <<child>> \o ChildrenBefore(Tail(children), reg)

RECURSIVE DefinitionsBefore(_, _)
\* the compounddef elements before the first unresolved id
DefinitionsBefore(definitions, reg) ==
  IF definitions = <<>> \/ UnresolvedCompound(Head(definitions), reg) THEN <<>>
  ELSE IF Attr(Head(definitions), "kind") \in SkippedKinds
    THEN <<Head(definitions)>> \o DefinitionsBefore(Tail(definitions), reg)
  ELSE IF \E j \in 1..Len(MemberDefsOf(Head(definitions))) :
            UnresolvedMember(MemberDefsOf(Head(definitions))[j], reg)
    THEN <<El("compounddef", Head(definitions).attrs,
              ChildrenBefore(Head(definitions).nodes, reg))>>
  ELSE <<Head(definitions)>> \o DefinitionsBefore(Tail(definitions), reg)

\* a directory entry cut before the first id that is not declared
EntryBefore(entry, reg) ==
  [entry EXCEPT !.root = El(entry.root.name, entry.root.attrs,
                            DefinitionsBefore(DefinitionsOf(<<entry>>), reg))]

\* C9: when the definition pass resolves an id that is not declared (the id
\* of a compounddef whose kind is neither file nor namespace, or the id of a
\* memberdef of kind function, variable or enum), the run panics there: the
\* Registry holds what the file wrote before that id and nothing of what
\* follows it, and no step follows the panic.
C9_UnresolvedAborts ==
  [][/\ pc # "panicked"
     /\ (files' # files /\ HasUnresolved(Last(files'), registry)) =>
          /\ pc' = "panicked"
          /\ registry' = GenericFiles(<<EntryBefore(Last(files'), registry)>>, registry).v]_vars

\* the run has panicked on a file that wrote a title and then met a
\* memberdef whose id is not declared
C9_Witness ==
  /\ pc = "panicked"
  /\ files # <<>>
  /\ HasUnresolved(Last(files), registry)
  /\ "c1" \in DOMAIN registry.compounds
  /\ registry.compounds["c1"].title = <<"T">>
  /\ DeclaredRegistry.compounds["c1"].title = <<>>

\* the member kinds parse_member_declaration names
KnownKinds == {"define", "friend", "typedef", "variable", "function", "enum", "enumvalue"}

\* a compound element without its members of a kind that is not known
KnownMembers(element) ==
  [element EXCEPT !.nodes =
     SelectSeqBy(@, {n \in {element.nodes[i] : i \in 1..Len(element.nodes)} :
                       n.name = "member" => Attr(n, "kind") \in KnownKinds})]

IoError == \E i \in 1..Len(files) : files[i].root = Unreadable

\* C11: once an I/O error has occurred while the input directory or one of
\* its documents is read, parse_xml does not return a Registry and
\* generate_markdown is not invoked.
C11_NoPartialResult == IoError => pc \notin {"returned", "generate_markdown"}

\* generate_markdown is invoked on the Registry of a declared compound after
\* read_dir yielded an item that is an Err
C11_Witness ==
  /\ pc = "generate_markdown"
  /\ \E i \in 1..Len(files) : files[i] = ErrEntry
  /\ "c1" \in DOMAIN registry.compounds

(***************************************************************************)
(* The signature normaliser on the argument texts of a function: the end   *)
(* of parse_function_definition, step by step, on the function m1 of the   *)
(* group c1.  The argument texts are "(" parameters ")" suffix, with at    *)
(* most MaxParams parameters.                                              *)
(***************************************************************************)

\* the greatest number of parameters of an argument text
MaxParams == 2

\* the parameters of the argument texts
ConstIntX == <<"c", "o", "n", "s", "t", " ", "i", "n", "t", " ", "x">>
ConstFooRefY == <<"c", "o", "n", "s", "t", " ", "F", "o", "o", "&", " ", "y">>
ConstPtrP == <<"c", "o", "n", "s", "t", " ", "T", "*", " ", "p">>
PairRefQ == <<"P", "<", "c", "o", "n", "s", "t", " ", "A", ",", " ", "B", ">", "&", " ", "q">>
Params == {ConstIntX, ConstFooRefY, ConstPtrP, PairRefQ}

\* what follows the parameter list in the argument texts
NoexceptB == <<" ", "n", "o", "e", "x", "c", "e", "p", "t", "(", "b", ")">>
ArrowT == <<" ", "-", ">", " ", "T">>
NoexceptArrowT ==
  <<" ", "n", "o", "e", "x", "c", "e", "p", "t", "(", "b", ")", " ", "-", ">", " ", "T">>
ArrowArrow == <<"-", ">", "a", "-", ">", "b">>
ArrowConstPair ==
  <<" ", "-", ">", " ", "c", "o", "n", "s", "t", " ", "P", "<", "A", ",", " ", "B", ">">>
Suffixes == {<<>>, NoexceptB, ArrowT, NoexceptArrowT, ArrowArrow, ArrowConstPair}

RECURSIVE Join(_, _)
\* the texts of a sequence, with sep between them
Join(ss, sep) ==
  IF ss = <<>> THEN <<>>
  ELSE IF Len(ss) = 1 THEN Head(ss)
  ELSE Head(ss) \o sep \o Join(Tail(ss), sep)

\* the argument text of a parameter list and a suffix
ArgsText(params, suffix) == <<"(">> \o Join(params, <<",", " ">>) \o <<")">> \o suffix

\* <memberdef kind="function">: [static] type f args, its parameters named or not
SignatureDef(static, type, args, named) ==
  El("memberdef",
     [id |-> "m1", kind |-> "function", prot |-> "public", static |-> static,
      const |-> "no", explicit |-> "no", inline |-> "no", virt |-> "non-virtual"],
     <<TextEl("type", type),
       TextEl("definition", type \o <<" ", "f">>),
       TextEl("argsstring", args),
       TextEl("name", <<"f">>)>>
     \o (IF named THEN <<El("param", NoAttrs, <<TextEl("declname", <<"x">>)>>)>> ELSE <<>>))

\* the memberdef elements of the functions normalised
SignatureDefs ==
  {SignatureDef(static, type, ArgsText(params, suffix), named) :
     static \in {"yes", "no"},
     type \in {<<"i", "n", "t">>, <<"a", "u", "t", "o">>},
     params \in SeqsUpTo(Params, MaxParams),
     suffix \in Suffixes,
     named \in BOOLEAN}

\* index.xml: the group c1 with the function m1
SignatureIndex == <<CompoundElem("c1", "group", <<MemberElem("m1", "function")>>)>>

\* parse_compound_definition has looked m1 up and calls
\* parse_function_definition on its memberdef
InitSignature ==
  /\ pc = "parse_function_definition"
  /\ index = SignatureIndex
  /\ \E def \in SignatureDefs :
       files = <<[is_file |-> TRUE, extension |-> "xml", file_name |-> FileNames[1],
                  root |-> DefinitionRoot("c1", "group",
                                          <<El("sectiondef", NoAttrs, <<def>>)>>)]>>
  /\ registry = CompoundDeclarations(SignatureIndex, NewRegistry).v
  /\ first = NoRegistry

\* the memberdef parse_function_definition is called on, and its argsstring
SignatureMember == MemberDefsOf(DefinitionsOf(files)[1])[1]
ArgsString == Text(GetChild(SignatureMember, "argsstring"))

\* parse_function_definition up to the assignment of func.docs
ReadFunction ==
  /\ pc = "parse_function_definition"
  /\ \E access \in {AccessModifierFromStr(Attr(SignatureMember, "prot"))},
        template_args \in {FunctionTemplateArgs(SignatureMember, registry.functions["m1"])},
        docs \in {ParseComment(SignatureMember)} :
       /\ registry' = [registry EXCEPT
                         !.functions["m1"] =
                           FunctionFields(SignatureMember, @, access.v, template_args.v, docs.v)]
       /\ pc' = IF access.ok /\ template_args.ok /\ docs.ok
                  THEN "remove_redundant_const" ELSE "panicked"
  /\ UNCHANGED <<index, files, first>>

\* parse_function_definition: the call of
\* remove_redundant_const_from_function_parameters
RemoveConst ==
  /\ pc = "remove_redundant_const"
  /\ \E r \in {RemoveRedundantConst(registry.functions["m1"])} :
       /\ registry' = [registry EXCEPT !.functions["m1"] = r.v]
       /\ pc' = IF r.ok THEN "simplify_noexcept" ELSE "panicked"
  /\ UNCHANGED <<index, files, first>>

\* parse_function_definition: the call of simplify_function_noexcept_specifier
SimplifySpecifier ==
  /\ pc = "simplify_noexcept"
  /\ registry' = [registry EXCEPT !.functions["m1"] = SimplifyNoexcept(@)]
  /\ pc' = "parsed"
  /\ UNCHANGED <<index, files, first>>

NextSignature == ReadFunction \/ RemoveConst \/ SimplifySpecifier

SpecSignature == InitSignature /\ [][NextSignature]_vars

(***************************************************************************)
(* Properties of the signature normaliser                                  *)
(***************************************************************************)

\* the function parse_function_definition writes
Func == registry.functions["m1"]

\* the width of what the rendered declaration puts before the argument text
DeclarationWidth(func) ==
  Len(func.return_type) + 1 + Len(func.name) + (IF func.is_static THEN 7 ELSE 0)

\* the call is on "(const int x, const Foo& y)", with parameter names and a
\* return type other than auto
OnConstIntXConstFooRefY ==
  /\ pc = "remove_redundant_const"
  /\ Func.args = ArgsText(<<ConstIntX, ConstFooRefY>>, <<>>)
  /\ Func.parameter_names # <<>>
  /\ Func.return_type # <<"a", "u", "t", "o">>

IntXComma == <<"(", "i", "n", "t", " ", "x", ",">>
SpConstFooRefYClose == <<" ", "c", "o", "n", "s", "t", " ", "F", "o", "o", "&", " ", "y", ")">>
IntXConstFooRefY ==
  <<"(", "i", "n", "t", " ", "x", ",", " ", "c", "o", "n", "s", "t", " ", "F", "o", "o",
  "&", " ", "y", ")">>

Count(s, pat) == Len(Split(s, pat)) - 1

RECURSIVE TopLevel(_, _, _)
\* the entries of a parameter list: s cut at the commas outside angle
\* brackets, cur being the entry so far and depth the brackets open
TopLevel(s, depth, cur) ==
  IF s = <<>> THEN <<cur>>
  ELSE IF Head(s) = "," /\ depth = 0 THEN <<cur>> \o TopLevel(Tail(s), 0, <<>>)
  ELSE TopLevel(Tail(s),
                depth + (IF Head(s) = "<" THEN 1 ELSE IF Head(s) = ">" THEN -1 ELSE 0),
                Append(cur, Head(s)))

\* the parameters of an argument text that is a parenthesised parameter list
Parameters(args) == TopLevel(SubSeq(args, 2, Len(args) - 1), 0, <<>>)

\* the occurrences of "const " in the parameters that hold a pointer or a
\* reference marker
MarkedConsts(params) ==
  SumSizes([i \in 1..Len(params) |->
              IF Contains(params[i], <<"*">>) \/ Contains(params[i], <<"&">>)
                THEN Count(params[i], <<"c", "o", "n", "s", "t", " ">>) ELSE 0])

\* C13: remove_redundant_const_from_function_parameters, called with
\* parameter names and a return type other than auto on an argument text
\* that is a parenthesised parameter list, leaves every "const " of the
\* parameters that hold '*' or '&' in the text, also when the type of such a
\* parameter holds a comma between angle brackets.
C13_MarkedConstKept ==
  [][(/\ pc = "remove_redundant_const"
      /\ Func.parameter_names # <<>>
      /\ Func.return_type # <<"a", "u", "t", "o">>
      /\ Find(Func.args, <<")">>, 1) = Len(Func.args))
     => Count(registry'.functions["m1"].args, <<"c", "o", "n", "s", "t", " ">>)
          >= MarkedConsts(Parameters(Func.args))]_vars

PairRefQStripped == <<"(", "P", "<", "A", ",", " ", "B", ">", "&", " ", "q", ")">>

\* remove_redundant_const_from_function_parameters has returned on
\* "(P<const A, B>& q)", and the const of the reference parameter is gone
C13_Witness ==
  /\ pc = "simplify_noexcept"
  /\ ArgsString = ArgsText(<<PairRefQ>>, <<>>)
  /\ Func.parameter_names # <<>>
  /\ Func.args = PairRefQStripped

\* s ends with suffix
EndsWith(s, suffix) ==
  /\ Len(s) >= Len(suffix)
  /\ SubSeq(s, Len(s) - Len(suffix) + 1, Len(s)) = suffix

\* C17: remove_redundant_const_from_function_parameters, called with
\* parameter names and the return type "auto" on an argument text that holds
\* "->", returns an argument text that ends with "->" followed by all of the
\* text after the first "->" of the input.
C17_TailVerbatim ==
  [][(/\ pc = "remove_redundant_const"
      /\ Func.parameter_names # <<>>
      /\ Func.return_type = <<"a", "u", "t", "o">>
      /\ Contains(Func.args, <<"-", ">">>))
     => /\ pc' = "simplify_noexcept"
        /\ EndsWith(registry'.functions["m1"].args,
                    SubSeq(Func.args, Find(Func.args, <<"-", ">">>, 1), Len(Func.args)))]_vars

IntXArrowA == <<"(", "i", "n", "t", " ", "x", ")", "-", ">", "a">>

\* remove_redundant_const_from_function_parameters has returned on
\* "(const int x)->a->b" of auto f, and the text ends with "->a"
C17_Witness ==
  /\ pc = "simplify_noexcept"
  /\ ArgsString = ArgsText(<<ConstIntX>>, ArrowArrow)
  /\ Func.parameter_names # <<>>
  /\ Func.return_type = <<"a", "u", "t", "o">>
  /\ Func.args = IntXArrowA

RECURSIVE ClosingParen(_, _, _)
\* the position of the ")" that closes the parenthesis open before position
\* i of s, depth parentheses being open there; Len(s) + 1 when there is none
ClosingParen(s, i, depth) ==
  IF i > Len(s) THEN Len(s) + 1
  ELSE IF s[i] = "(" THEN ClosingParen(s, i + 1, depth + 1)
  ELSE IF s[i] = ")" /\ depth = 1 THEN i
  ELSE IF s[i] = ")" THEN ClosingParen(s, i + 1, depth - 1)
  ELSE ClosingParen(s, i + 1, depth)

NoexceptOpen == <<"n", "o", "e", "x", "c", "e", "p", "t", "(">>
NoexceptDots == <<"n", "o", "e", "x", "c", "e", "p", "t", "(", ".", ".", ".", ")">>

\* s with its first noexcept(expression) replaced by noexcept(...)
Collapsed(s) ==
  LET i == Find(s, NoexceptOpen, 1)
  IN SubSeq(s, 1, i - 1) \o NoexceptDots
       \o SubSeq(s, ClosingParen(s, i + Len(NoexceptOpen), 1) + 1, Len(s))

\* C18: simplify_function_noexcept_specifier leaves an argument text without
\* "noexcept(" as it is; in one that holds it, the noexcept expression
\* becomes "noexcept(...)", and the text before it and the text after its
\* closing parenthesis stay as they are.
C18_SpecifierCollapsed ==
  [][pc = "simplify_noexcept" =>
       registry'.functions["m1"].args
         = IF Contains(Func.args, NoexceptOpen) THEN Collapsed(Func.args) ELSE Func.args]_vars

NoexceptDotsOnly ==
  <<"(", ")", " ", "n", "o", "e", "x", "c", "e", "p", "t", "(", ".", ".", ".", ")">>

\* simplify_function_noexcept_specifier has returned on "() noexcept(b) -> T",
\* and the trailing return type is gone
C18_Witness ==
  /\ pc = "parsed"
  /\ ArgsString = ArgsText(<<>>, NoexceptArrowT)
  /\ Func.args = NoexceptDotsOnly

(***************************************************************************)
(* The comment extractor on the title of a group and on the detailed       *)
(* description of a variable: one definition file of the group c1, which   *)
(* holds the variable m1.                                                  *)
(***************************************************************************)

\* the greatest number of nodes of a title, of items of a list and of
\* paragraphs of a detailed description
MaxNodes == 2

\* the greatest number of simplesect elements of a paragraph
MaxSections == 2

\* the list items: <listitem>A</listitem> and <listitem><para>B</para></listitem>
ListItems == {TextEl("listitem", <<"A">>), El("listitem", NoAttrs, <<TextEl("para", <<"B">>)>>)}

\* the nodes of a title: texts, lists, and an element of each other kind
\* parse_text names or does not name
TitleNodes ==
  {Tx(<<" ", "A", " ">>), Tx(<<"B", "\n">>)}
  \cup {El("itemizedlist", NoAttrs, items) : items \in SeqsUpTo(ListItems, MaxNodes)}
  \cup {TextEl("computeroutput", <<"C">>),
        El("ref", [refid |-> "c2", kindref |-> "compound"], <<Tx(<<"D">>)>>),
        TextEl("ref", <<"D">>),
        TextEl("bold", <<"E">>)}

\* the simplesect elements: two that return, one that returns without a
\* paragraph, and a note
SimpleSections ==
  {El("simplesect", [kind |-> "return"], <<TextEl("para", <<"R">>)>>),
   El("simplesect", [kind |-> "return"], <<TextEl("para", <<"S">>)>>),
   El("simplesect", [kind |-> "return"], <<>>),
   El("simplesect", [kind |-> "note"], <<TextEl("para", <<"N">>)>>)}

\* the paragraphs of a detailed description
Paragraphs ==
  {El("para", NoAttrs, <<Tx(<<"P">>)>> \o sections) :
     sections \in SeqsUpTo(SimpleSections, MaxSections)}

\* <memberdef kind="variable">: public T v, with a detailed description
DescribedVariable(paragraphs) ==
  El("memberdef",
     [id |-> "m1", kind |-> "variable", prot |-> "public", static |-> "no", mutable |-> "no"],
     <<TextEl("definition", <<"T", " ", "v">>),
       TextEl("name", <<"v">>),
       TextEl("qualifiedname", <<"v">>),
       El("detaileddescription", NoAttrs, paragraphs)>>)

\* index.xml: the group c1 with the variable m1
CommentIndex == <<CompoundElem("c1", "group", <<MemberElem("m1", "variable")>>)>>

\* parse_index_file has returned and read_dir has yielded nothing yet
InitComment ==
  /\ pc = "read_dir"
  /\ index = CommentIndex
  /\ files = <<>>
  /\ registry = CompoundDeclarations(CommentIndex, NewRegistry).v
  /\ first = NoRegistry

\* parse_xml: parse_generic_file on the definition file of c1, which holds a title
ParseTitle ==
  /\ pc = "read_dir"
  /\ files = <<>>
  /\ \E nodes \in SeqsUpTo(TitleNodes, MaxNodes) :
       \E entry \in {DefinitionEntry(DefinitionRoot("c1", "group",
                                                    <<El("title", NoAttrs, nodes)>>))} :
         /\ files' = Append(files, entry)
         /\ \E r \in {ParseGenericFile(entry, registry)} :
              /\ registry' = r.v
              /\ pc' = IF r.ok THEN "read_dir" ELSE "panicked"
  /\ UNCHANGED <<index, first>>

\* parse_xml: parse_generic_file on the definition file of c1, which holds
\* the memberdef of m1
ParseDescription ==
  /\ pc = "read_dir"
  /\ files = <<>>
  /\ \E paragraphs \in SeqsUpTo(Paragraphs, MaxNodes) :
       \E entry \in {DefinitionEntry(DefinitionRoot("c1", "group",
                       <<El("sectiondef", NoAttrs, <<DescribedVariable(paragraphs)>>)>>))} :
         /\ files' = Append(files, entry)
         /\ \E r \in {ParseGenericFile(entry, registry)} :
              /\ registry' = r.v
              /\ pc' = IF r.ok THEN "read_dir" ELSE "panicked"
  /\ UNCHANGED <<index, first>>

NextComment == ParseTitle \/ ParseDescription

SpecComment == InitComment /\ [][NextComment]_vars

(***************************************************************************)
(* Properties of the comment extractor                                     *)
(***************************************************************************)

\* the definition file holds a title, and the title element
HasTitle == files # <<>> /\ HasChild(DefinitionsOf(files)[1], "title")
TitleElement == GetChild(DefinitionsOf(files)[1], "title")

\* out is text without the whitespace it begins and ends with
IsTrimOf(out, text) ==
  /\ out = <<>> \/ (~IsWhitespace(out[1]) /\ ~IsWhitespace(out[Len(out)]))
  /\ \E i \in 1..(Len(text) + 1) :
       /\ \A k \in 1..(i - 1) : IsWhitespace(text[k])
       /\ \A k \in (i + Len(out))..Len(text) : IsWhitespace(text[k])
       /\ i + Len(out) - 1 <= Len(text)
       /\ out = SubSeq(text, i, i + Len(out) - 1)

\* the text of a list item, which holds it as a text node or in a paragraph
ItemText(item) ==
  IF IsText(item.nodes[1]) THEN item.nodes[1].text ELSE item.nodes[1].nodes[1].text

\* "* text\n" for each item of a list, one after the other
ListEntries(items) ==
  Concat([i \in 1..Len(items) |-> <<"*", " ">> \o ItemText(items[i]) \o <<"\n">>])

\* C14: parse_text on an element that holds one text node and nothing else
\* returns that text without the whitespace at its ends; on an element that
\* holds an itemizedlist, the result contains "* text\n" for each listitem
\* of the list, in document order and one right after the other.
C14_TextAndList ==
  HasTitle =>
    LET nodes == TitleElement.nodes
        title == registry.compounds["c1"].title
    IN /\ (Len(nodes) = 1 /\ IsText(nodes[1])) =>
            pc = "read_dir" /\ IsTrimOf(title, nodes[1].text)
       /\ \A k \in 1..Len(nodes) :
            (nodes[k].name = "itemizedlist" /\ pc # "panicked") =>
              Contains(title, ListEntries(nodes[k].nodes))

\* the title was a list of the items A and B, and the text is a line feed,
\* "* A", a line feed, "* B" and a line feed
C14_Witness ==
  /\ HasTitle
  /\ Len(TitleElement.nodes) = 1
  /\ TitleElement.nodes[1].name = "itemizedlist"
  /\ Len(TitleElement.nodes[1].nodes) = 2
  /\ ItemText(TitleElement.nodes[1].nodes[1]) = <<"A">>
  /\ ItemText(TitleElement.nodes[1].nodes[2]) = <<"B">>
  /\ registry.compounds["c1"].title = <<"\n", "*", " ", "A", "\n", "*", " ", "B", "\n">>

\* the definition file holds the memberdef of m1, and the paragraphs of its
\* detailed description
HasDescription == files # <<>> /\ ~HasTitle
DescriptionParagraphs ==
  Children(GetChild(MemberDefsOf(DefinitionsOf(files)[1])[1], "detaileddescription"))

\* a simplesect of kind return
IsReturn(section) == Attr(section, "kind") = "return"

\* the text of the paragraph of a simplesect
SectionText(section) ==
  IF HasChild(section, "para") THEN Text(GetChild(section, "para")) ELSE <<>>

\* the simplesect elements of kind return of a detailed description, in
\* document order
ReturnSections(paragraphs) ==
  Concat([i \in 1..Len(paragraphs) |->
            SelectSeq(ChildrenNamed(paragraphs[i], "simplesect"), IsReturn)])

\* the simplesect elements of kind return that are the first simplesect of
\* their paragraph and hold a paragraph, in document order
FirstReturnSections(paragraphs) ==
  Concat([i \in 1..Len(paragraphs) |->
            LET sections == ChildrenNamed(paragraphs[i], "simplesect")
            IN IF /\ sections # <<>>
                  /\ IsReturn(sections[1])
                  /\ HasChild(sections[1], "para")
                 THEN <<sections[1]>> ELSE <<>>])

\* C15, as stated: when the detailed description holds more than one
\* simplesect of kind return, the return description is the text of the
\* last of them in document order.
C15_Original ==
  (HasDescription /\ Len(ReturnSections(DescriptionParagraphs)) > 1) =>
    registry.variables["m1"].docs.returns
      = SectionText(Last(ReturnSections(DescriptionParagraphs)))

\* C15, amended: parse_comment reads the first simplesect of each paragraph
\* of the detailed description and no other; the return description is the
\* text of the last, in document order, of those of them that are of kind
\* return and hold a paragraph, each replacing the value before it, and it
\* is empty when there is none.
C15_LastReturnWins ==
  HasDescription =>
    /\ pc = "read_dir"
    /\ registry.variables["m1"].docs.returns
         = IF FirstReturnSections(DescriptionParagraphs) = <<>> THEN <<>>
           ELSE SectionText(Last(FirstReturnSections(DescriptionParagraphs)))

\* the detailed description had a paragraph that returns R and then one that
\* returns S, and the return description is S
C15_Witness ==
  /\ HasDescription
  /\ Len(DescriptionParagraphs) = 2
  /\ Len(FirstReturnSections(DescriptionParagraphs)) = 2
  /\ SectionText(FirstReturnSections(DescriptionParagraphs)[1]) = <<"R">>
  /\ SectionText(FirstReturnSections(DescriptionParagraphs)[2]) = <<"S">>
  /\ registry.variables["m1"].docs.returns = <<"S">>

(***************************************************************************)
(* Properties of the lists of declared members                             *)
(***************************************************************************)

\* the member kind each list of declared members is for
KindOfList ==
  [defines |-> "define", variables |-> "variable", functions |-> "function",
   enums |-> "enum", enum_values |-> "enumvalue"]

\* the identifiers of the member elements of a kind, in document order
IdsOfKind(members, kind) ==
  LET of_kind == SelectSeq(members, LAMBDA m : Attr(m, "kind") = kind)
  IN [j \in 1..Len(of_kind) |-> Attr(of_kind[j], "refid")]

\* every list of the compound of a compound element holds the identifiers of
\* the element's members of its kind, in document order
ListsInOrder(element) ==
  \A list \in MemberLists :
    registry.compounds[Attr(element, "refid")][list]
      = IdsOfKind(ChildrenNamed(element, "member"), KindOfList[list])

\* C16: after the declaration pass, for every compound element of the index,
\* each list of declared members of its compound (defines, variables,
\* functions, enums, enum_values) is the sequence of the identifiers of the
\* element's members of that kind, in document order; a member of kind
\* friend or typedef adds nothing to a list.
C16_ListsInOrder == Declared => \A i \in 1..Len(index) : ListsInOrder(index[i])

\* the declaration pass is over on an index that declares the group c1 with
\* the variable m1, and then c1 again with a friend alone: c1 lists no
\* variable
C16_Witness ==
  /\ Declared
  /\ index = <<CompoundElem("c1", "group", <<MemberElem("m1", "variable")>>),
               CompoundElem("c1", "group", <<MemberElem("m1", "friend")>>)>>
  /\ registry.compounds["c1"].variables = <<>>
  /\ "m1" \in DOMAIN registry.variables

(***************************************************************************)
(* parse_enum_definition on the initializers of the values of an enum: one *)
(* definition file of the group c1, which holds the enum m1.               *)
(***************************************************************************)

\* the greatest number of values of an enum
MaxValues == 2

\* the texts of the initializer elements
EqOne == <<"=", " ", "1">>
One == <<"1">>
EqNoSpace == <<"=", "1">>
EqShift == <<"=", " ", "1", " ", "<", "<", " ", "2">>
EqLessEq == <<"=", " ", "1", " ", "<", "=", " ", "2">>
EqEqEq == <<"=", " ", "a", " ", "=", "=", " ", "b">>
EqSum == <<"=", " ", "A", " ", "+", " ", "1">>
EqCast == <<"=", " ", "T", "{", "a", "=", " ", "1", "}">>
Braces == <<"{", "1", "}">>
Initializers == {EqOne, One, EqNoSpace, EqShift, EqLessEq, EqEqEq, EqSum, EqCast, Braces}

\* the enumvalue elements: V without an initializer, and V with each of them
EnumValueElems ==
  {El("enumvalue", [id |-> "v1"], <<TextEl("name", <<"V">>)>>)}
  \cup {El("enumvalue", [id |-> "v1"],
           <<TextEl("name", <<"V">>), TextEl("initializer", text)>>) : text \in Initializers}

\* <memberdef kind="enum">: enum E with its values
EnumWithValues(values) ==
  El("memberdef",
     [id |-> "m1", kind |-> "enum", strong |-> "no"],
     <<TextEl("name", <<"E">>), TextEl("qualifiedname", <<"E">>)>> \o values)

\* index.xml: the group c1 with the enum m1
EnumIndex == <<CompoundElem("c1", "group", <<MemberElem("m1", "enum")>>)>>

\* parse_index_file has returned and read_dir has yielded nothing yet
InitEnum ==
  /\ pc = "read_dir"
  /\ index = EnumIndex
  /\ files = <<>>
  /\ registry = CompoundDeclarations(EnumIndex, NewRegistry).v
  /\ first = NoRegistry

\* parse_xml: parse_generic_file on the definition file of c1, which holds
\* the memberdef of m1
ParseEnum ==
  /\ pc = "read_dir"
  /\ files = <<>>
  /\ \E values \in SeqsUpTo(EnumValueElems, MaxValues) :
       \E entry \in {DefinitionEntry(DefinitionRoot("c1", "group",
                       <<El("sectiondef", NoAttrs, <<EnumWithValues(values)>>)>>))} :
         /\ files' = Append(files, entry)
         /\ \E r \in {ParseGenericFile(entry, registry)} :
              /\ registry' = r.v
              /\ pc' = IF r.ok THEN "read_dir" ELSE "panicked"
  /\ UNCHANGED <<index, first>>

\* parse_xml returns the Registry once read_dir is exhausted
ReturnEnum ==
  /\ pc = "read_dir"
  /\ files # <<>>
  /\ pc' = "returned"
  /\ UNCHANGED <<index, files, registry, first>>

NextEnum == ParseEnum \/ ReturnEnum

SpecEnum == InitEnum /\ [][NextEnum]_vars

\* the enumvalue elements of the memberdef of m1
EnumValueElements ==
  ChildrenNamed(MemberDefsOf(DefinitionsOf(files)[1])[1], "enumvalue")

\* text without one "= " at its start
WithoutLeadingEq(text) ==
  IF Len(text) >= 2 /\ SubSeq(text, 1, 2) = <<"=", " ">> THEN SubSeq(text, 3, Len(text)) ELSE text

\* C19: the initializer stored for an enum value with an initializer element
\* is the text of the element without one "= " at its start, and the text
\* as it is when it does not start with "= ".
C19_LeadingEqStripped ==
  files # <<>> =>
    \A k \in 1..Len(EnumValueElements) :
      HasChild(EnumValueElements[k], "initializer") =>
        registry.enums["m1"].values[k].initializer
          = WithoutLeadingEq(Text(GetChild(EnumValueElements[k], "initializer")))

OneLessTwo == <<"1", " ", "<", "2">>

\* parse_xml has returned on an enum whose value has the initializer
\* "= 1 <= 2", and the initializer stored is "1 <2"
C19_Witness ==
  /\ pc = "returned"
  /\ Len(EnumValueElements) = 1
  /\ HasChild(EnumValueElements[1], "initializer")
  /\ Text(GetChild(EnumValueElements[1], "initializer")) = EqLessEq
  /\ registry.enums["m1"].values[1].initializer = OneLessTwo

=============================================================================
